---------------------------- MODULE Spec2Model ----------------------------
(***************************************************************************)
(* A model of the coin-signal opportunity detection and corroboration      *)
(* pipeline: the on-chain inspector (address resolution with its cache,    *)
(* transfer scoring), the market scanner (per-symbol filter, concurrent    *)
(* gather, ranking) and the orchestrator's scan cycle with its per-symbol  *)
(* alert cooldown.                                                         *)
(*                                                                         *)
(* Money amounts and token quantities are modelled as integers; the        *)
(* program's floats are only added, multiplied and compared on the paths   *)
(* modelled here, and the spike ratio (a quotient) is kept as an exact     *)
(* fraction.  Text (symbols, chain names) is modelled as sequences of      *)
(* one-character strings so that upper(), lower() and replace() are        *)
(* computed, not assumed.                                                  *)
(***************************************************************************)
EXTENDS Integers, Sequences, FiniteSets, TLC

VARIABLES
    \* --- on-chain inspector: scorer ---
    now,            \* the wall clock, datetime.now(), in seconds
    transfers,      \* the Transfer list held by the caller (mutated by scoring)
    scored_input,   \* the Transfer list as it was passed to the last scoring call
    scored_price,   \* current_price of the last scoring call (-1: none yet)
    signal,         \* the OnChainSignal last returned (NoSignal: none yet)
    \* --- on-chain inspector: address resolver ---
    address_cache,  \* OnChainInspector._address_cache: cache_key -> (address, chain)
    resolve_call,   \* the last resolve_address call: arguments, result, outbound calls
    lookup_call,    \* a resolve_token_address call: arguments, answer, what it returned
    resolvers,      \* concurrent resolve_address calls: call -> position and result
    \* --- on-chain inspector: transfer fetch ---
    known_wallets,  \* OnChainInspector.known_wallets: the three registries
    fetch_call,     \* a fetch_recent_transfers call: arguments, answer, what it returned
    classify_call,  \* a _classify_wallet call: the address, what it returned
    \* --- market scanner ---
    scan_symbols,   \* the symbol list of the scan in progress
    market,         \* symbol -> what the market-data feed answers for it
    max_concurrent, \* the scan's semaphore capacity
    task,           \* symbol index -> "waiting" | "running" | "done"
    completion,     \* symbol indices in the order their evaluations finished
    task_result,    \* symbol index -> ScanResult | NoResult | Failed
    scan_output,    \* the list scan() returned (empty until it returns)
    scan_pc,        \* "idle" | "gathering" (tasks in flight) | "returned" | "raised"
    \* --- orchestrator ---
    running,        \* FuturesIntelligenceBot._running
    pc,             \* position of run()/run_scan_cycle()
    opportunities,  \* the scan result of the cycle in progress
    idx,            \* index of the opportunity being processed (1-based)
    analysis,       \* get_advanced_analysis result for the current opportunity
    onchain,        \* outcome of process_opportunity for the current opportunity
    alert_cooldown, \* FuturesIntelligenceBot._alert_cooldown: symbol -> last alert time
    alerts,         \* every alert record handed to the alert sinks, oldest first
    cycle_log,      \* per opportunity of the current cycle: what happened to it
    \* --- market scanner: symbol list cache ---
    pairs_cache,    \* BinanceFuturesScanner._pairs_cache
    cache_time,     \* BinanceFuturesScanner._cache_time (NoCacheTime: None)
    pairs_call,     \* the last fetch_usdt_futures_pairs call: arguments, what it returned
    \* --- signal manager ---
    use_postgres,   \* SignalManager.use_postgres
    signals,        \* SignalManager.signals, newest first
    disk,           \* the JSON file at storage_path
    db_rows,        \* the rows of the signals table, oldest first
    add_call        \* the last add_signal call: the signal, where it was stored

scoreVars == <<transfers, scored_input, scored_price, signal>>
resolveVars == <<address_cache, resolve_call>>
scanVars == <<scan_symbols, market, max_concurrent, task, completion, task_result,
              scan_output, scan_pc>>
orchVars == <<running, pc, opportunities, idx, analysis, onchain, alert_cooldown, alerts, cycle_log>>
callVars == <<lookup_call, resolvers, known_wallets, fetch_call, classify_call>>
pairsVars == <<pairs_cache, cache_time, pairs_call>>
signalVars == <<use_postgres, signals, disk, db_rows, add_call>>
storeVars == <<pairsVars, signalVars>>
vars == <<now, scoreVars, resolveVars, callVars, scanVars, orchVars, storeVars>>

Min(a, b) == IF a < b THEN a ELSE b
Max(a, b) == IF a > b THEN a ELSE b
Abs(a) == IF a < 0 THEN -a ELSE a

RECURSIVE SeqSum(_)
SeqSum(s) == IF s = << >> THEN 0 ELSE Head(s) + SeqSum(Tail(s))

\* All sequences over S of length at most n.
SeqsUpTo(S, n) == UNION {[1..k -> S] : k \in 0..n}

(***************************************************************************)
(* Configuration (config.py).                                              *)
(***************************************************************************)
VOLUME_SPIKE_MULTIPLIER == 5
PRICE_CHANGE_THRESHOLD == 4
MIN_VOLUME_USD_5M == 100000
LARGE_TRANSFER_USD == 1000000
WHALE_TRANSFER_CONFIDENCE_BOOST == 20
LARGE_AMOUNT_CONFIDENCE_BOOST == 15
RECENT_ACTIVITY_CONFIDENCE_BOOST == 10

(***************************************************************************)
(* SignalScorer: OnChainInspector.analyze_transfers.                       *)
(***************************************************************************)
WalletType == {"whale", "exchange", "market_maker", "unknown"}
SignalType == {"LONG", "SHORT", "VOLATILITY", "NEUTRAL"}

NoSignal == [signal_type |-> "none"]

\* The result of analyze_transfers on an empty list.
EmptySignal ==
    [signal_type |-> "NEUTRAL", confidence_score |-> 0,
     evidence |-> <<[kind |-> "no_transfer_data", amount |-> 0]>>,
     whale_transfers |-> 0, exchange_deposits |-> 0, exchange_withdrawals |-> 0,
     market_maker_activity |-> FALSE, analyzed_transfers |-> 0]

\* `if not transfers`
NoTransfersNever(ts) == FALSE
NoTransfers(ts) == Len(ts) = 0

\* transfer.value_usd after `if current_price > 0: transfer.value_usd = value * price`
ValueUsd(t, current_price) ==
    IF current_price > 0 THEN t.value * current_price ELSE t.value_usd

\* The caller's list after the loop has written value_usd into each Transfer.
Priced(ts, current_price) ==
    [i \in DOMAIN ts |-> [ts[i] EXCEPT !.value_usd = ValueUsd(ts[i], current_price)]]

IsWhaleToExchange(t) == t.from_type = "whale" /\ t.to_type = "exchange"
IsExchangeToWhale(t) ==
    ~IsWhaleToExchange(t) /\ t.from_type = "exchange" /\ t.to_type = "whale"
IsMarketMakerMove(t) == t.from_type = "market_maker" \/ t.to_type = "market_maker"
IsWhaleInvolved(t) == t.from_type = "whale" \/ t.to_type = "whale"

\* `transfer.value_usd or transfer.value`, of a Transfer already priced
Amount(t) == IF t.value_usd # 0 THEN t.value_usd ELSE t.value

\* one_hour_ago = datetime.now() - timedelta(hours=1); timestamp > one_hour_ago
SecondsPerHour == 3600
IsRecent(t, clock) == t.timestamp > clock - SecondsPerHour

\* Positions of the transfers counted by each tally of the loop.
WhaleToExchangeAt(ts) == {i \in DOMAIN ts : IsWhaleToExchange(ts[i])}
ExchangeToWhaleAt(ts) == {i \in DOMAIN ts : IsExchangeToWhale(ts[i])}
MarketMakerAt(ts) == {i \in DOMAIN ts : IsMarketMakerMove(ts[i])}
RecentWhaleAt(ts, clock) ==
    {i \in DOMAIN ts : IsWhaleInvolved(ts[i]) /\ IsRecent(ts[i], clock)}

\* `value += transfer.value_usd or transfer.value` over the positions in at
ValueOver(ts, at) ==
    SeqSum([i \in DOMAIN ts |-> IF i \in at THEN Amount(ts[i]) ELSE 0])

\* The evidence string appended for a directional transfer.  The conditional
\* expression spans the whole concatenation, so without a value_usd the entry
\* is only the token amount.
EvidenceEntry(t, dir) ==
    IF t.value_usd # 0 THEN [kind |-> dir, amount |-> t.value_usd]
    ELSE [kind |-> "tokens", amount |-> t.value]

RECURSIVE EvidenceOf(_)
EvidenceOf(ts) ==
    IF ts = << >> THEN << >>
    ELSE LET t == Head(ts)
             e == IF IsWhaleToExchange(t) THEN <<EvidenceEntry(t, "whale_to_exchange")>>
                  ELSE IF IsExchangeToWhale(t) THEN <<EvidenceEntry(t, "exchange_to_whale")>>
                  ELSE << >>
         IN  e \o EvidenceOf(Tail(ts))

\* min(count * WHALE_TRANSFER_CONFIDENCE_BOOST, 40)
WhaleBonusUncapped(count) == count * WHALE_TRANSFER_CONFIDENCE_BOOST
WhaleBonus(count) == Min(count * WHALE_TRANSFER_CONFIDENCE_BOOST, 40)

\* the large-amount bonus
LargeBonus(w2e_value, e2w_value) ==
    IF w2e_value > LARGE_TRANSFER_USD \/ e2w_value > LARGE_TRANSFER_USD
    THEN LARGE_AMOUNT_CONFIDENCE_BOOST ELSE 0

\* the recent-whale-activity bonus
RecentBonus(recent) ==
    IF recent > 0 THEN Min(recent * RECENT_ACTIVITY_CONFIDENCE_BOOST, 20) ELSE 0

\* confidence = min(confidence, 95)
ClampOff(c) == c
Clamp(c) == Min(c, 95)

\* `market_maker_moves >= 3`
HighMarketMakerStrict(moves) == moves > 3
HighMarketMaker(moves) == moves >= 3

\* `confidence = max(confidence - 30, 20)` of the neutral branch
NeutralConfidenceKept(c) == c
NeutralConfidence(c) == Max(c - 30, 20)

\* The confidence before the ceiling is applied.
RawConfidence(ts, clock) ==
    50 + WhaleBonus(Cardinality(WhaleToExchangeAt(ts)))
       + WhaleBonus(Cardinality(ExchangeToWhaleAt(ts)))
       + LargeBonus(ValueOver(ts, WhaleToExchangeAt(ts)),
                    ValueOver(ts, ExchangeToWhaleAt(ts)))
       + RecentBonus(Cardinality(RecentWhaleAt(ts, clock)))

\* analyze_transfers(transfers, current_price) evaluated at wall-clock time `clock`.
analyze_transfers(ts0, current_price, clock) ==
    IF NoTransfers(ts0) THEN EmptySignal
    ELSE
    LET ts == Priced(ts0, current_price)
        w2e == Cardinality(WhaleToExchangeAt(ts))
        e2w == Cardinality(ExchangeToWhaleAt(ts))
        mm  == Cardinality(MarketMakerAt(ts))
        confidence == Clamp(RawConfidence(ts, clock))
        evidence == EvidenceOf(ts)
        verdict ==
            IF HighMarketMaker(mm)
            THEN [t |-> "VOLATILITY", c |-> confidence,
                  e |-> <<[kind |-> "market_maker_moves", amount |-> mm]>> \o evidence]
            ELSE IF w2e > e2w
            THEN [t |-> "SHORT", c |-> confidence,
                  e |-> <<[kind |-> "whale_deposits", amount |-> w2e]>> \o evidence]
            ELSE IF e2w > w2e
            THEN [t |-> "LONG", c |-> confidence,
                  e |-> <<[kind |-> "whale_withdrawals", amount |-> e2w]>> \o evidence]
            ELSE IF w2e = e2w /\ w2e > 0
            THEN [t |-> "VOLATILITY", c |-> confidence, e |-> evidence]
            ELSE [t |-> "NEUTRAL", c |-> NeutralConfidence(confidence), e |-> evidence]
    IN  [signal_type |-> verdict.t, confidence_score |-> verdict.c,
         evidence |-> SubSeq(verdict.e, 1, Min(Len(verdict.e), 5)),
         whale_transfers |-> w2e + e2w,
         exchange_deposits |-> ValueOver(ts, WhaleToExchangeAt(ts)),
         exchange_withdrawals |-> ValueOver(ts, ExchangeToWhaleAt(ts)),
         market_maker_activity |-> mm > 0,
         analyzed_transfers |-> Len(ts0)]

(***************************************************************************)
(* Text.  A str is a sequence of one-character strings.                    *)
(***************************************************************************)
LowerCase == <<"a", "b", "c", "d", "e", "f", "g", "h", "i", "j", "k", "l", "m",
               "n", "o", "p", "q", "r", "s", "t", "u", "v", "w", "x", "y", "z">>
UpperCase == <<"A", "B", "C", "D", "E", "F", "G", "H", "I", "J", "K", "L", "M",
               "N", "O", "P", "Q", "R", "S", "T", "U", "V", "W", "X", "Y", "Z">>

\* str.upper() and str.lower()
Upper(s) ==
    [i \in DOMAIN s |->
        IF \E k \in DOMAIN LowerCase : LowerCase[k] = s[i]
        THEN UpperCase[CHOOSE k \in DOMAIN LowerCase : LowerCase[k] = s[i]]
        ELSE s[i]]
Lower(s) ==
    [i \in DOMAIN s |->
        IF \E k \in DOMAIN UpperCase : UpperCase[k] = s[i]
        THEN LowerCase[CHOOSE k \in DOMAIN UpperCase : UpperCase[k] = s[i]]
        ELSE s[i]]

\* str.replace(old, ""): every non-overlapping occurrence of old, left to right
RECURSIVE Remove(_, _)
Remove(s, old) ==
    IF Len(s) < Len(old) THEN s
    ELSE IF SubSeq(s, 1, Len(old)) = old
         THEN Remove(SubSeq(s, Len(old) + 1, Len(s)), old)
         ELSE <<Head(s)>> \o Remove(Tail(s), old)

ETHEREUM == <<"e", "t", "h", "e", "r", "e", "u", "m">>
ETH_ALIAS == <<"e", "t", "h">>
BSC == <<"b", "s", "c">>
BINANCE == <<"b", "i", "n", "a", "n", "c", "e">>
SOLANA == <<"s", "o", "l", "a", "n", "a">>
UNKNOWN == <<"u", "n", "k", "n", "o", "w", "n">>

(***************************************************************************)
(* AddressResolver: resolve_token_address and OnChainInspector's cache.    *)
(***************************************************************************)
\* config.TOKEN_ADDRESSES, in dict order
TOKEN_ADDRESSES ==
    <<
       [symbol |-> <<"E", "T", "H">>,
        addresses |-> <<[chain |-> ETHEREUM, address |-> "0xC02aaA39b223FE8D0A0e5C4F27eAD9083C756Cc2"], [chain |-> BSC, address |-> "0x2170Ed0880ac9A755fd29B2688956BD959F933F8"]>>],
       [symbol |-> <<"B", "T", "C">>,
        addresses |-> <<[chain |-> ETHEREUM, address |-> "0x2260FAC5E5542a773Aa44fBCfeDf7C193bc2C599"], [chain |-> BSC, address |-> "0x7130d2A12B9BCbFAe4f2634d864A1Ee1Ce3Ead9c"]>>],
       [symbol |-> <<"B", "N", "B">>,
        addresses |-> <<[chain |-> BSC, address |-> "0xbb4CdB9CBd36B01bD1cBaEBF2De08d9173bc095c"]>>],
       [symbol |-> <<"S", "O", "L">>,
        addresses |-> <<[chain |-> ETHEREUM, address |-> "0xD31a59c85aE9D8edEFeC411D448f90841571b89c"]>>],
       [symbol |-> <<"L", "I", "N", "K">>,
        addresses |-> <<[chain |-> ETHEREUM, address |-> "0x514910771AF9Ca656af840dff83E8264EcF986CA"], [chain |-> BSC, address |-> "0xF8A0BF9cF54Bb92F17374d9e9A321E6a111a51bD"]>>],
       [symbol |-> <<"U", "N", "I">>,
        addresses |-> <<[chain |-> ETHEREUM, address |-> "0x1f9840a85d5aF5bf1D1762F925BDADdC4201F984"]>>],
       [symbol |-> <<"A", "A", "V", "E">>,
        addresses |-> <<[chain |-> ETHEREUM, address |-> "0x7Fc66500c84A76Ad7e9c93437bFc5Ac33E2DDaE9"]>>],
       [symbol |-> <<"D", "O", "G", "E">>,
        addresses |-> <<[chain |-> BSC, address |-> "0xbA2aE424d960c26247Dd6c32edC70B295c744C43"]>>],
       [symbol |-> <<"X", "R", "P">>,
        addresses |-> <<[chain |-> BSC, address |-> "0x1D2F0da169ceB9fC7B3144628dB156f3F6c60dBE"]>>],
       [symbol |-> <<"A", "D", "A">>,
        addresses |-> <<[chain |-> BSC, address |-> "0x3EE2200Efb3400fAbB9AacF31297cBdD1d435D47"]>>],
       [symbol |-> <<"A", "V", "A", "X">>,
        addresses |-> <<[chain |-> ETHEREUM, address |-> "0x85f138bfEE4ef8e540890CFb48F620571d67Eda3"]>>],
       [symbol |-> <<"S", "H", "I", "B">>,
        addresses |-> <<[chain |-> ETHEREUM, address |-> "0x95aD61b0a150d79219dCF64E1E6Cc01f0B64C4cE"]>>],
       [symbol |-> <<"P", "E", "P", "E">>,
        addresses |-> <<[chain |-> ETHEREUM, address |-> "0x6982508145454Ce325dDbE47a25d4ec3d2311933"]>>]
    >>

None == "None"

\* symbol.upper().replace("1000", "").replace("1000000", "")
symbol_clean(symbol) ==
    Remove(Remove(Upper(symbol), <<"1", "0", "0", "0">>),
           <<"1", "0", "0", "0", "0", "0", "0">>)

InTable(sym) == \E i \in DOMAIN TOKEN_ADDRESSES : TOKEN_ADDRESSES[i].symbol = sym
TableEntry(sym) ==
    TOKEN_ADDRESSES[CHOOSE i \in DOMAIN TOKEN_ADDRESSES : TOKEN_ADDRESSES[i].symbol = sym]

\* The static-table branch: the preferred chain's address, else the first
\* chain-address pair of the entry.
TableLookupKeepChain(addresses, chain) ==
    IF \E i \in DOMAIN addresses : addresses[i].chain = chain
    THEN <<addresses[CHOOSE i \in DOMAIN addresses : addresses[i].chain = chain].address, chain>>
    ELSE <<addresses[1].address, chain>>
TableLookup(addresses, chain) ==
    IF \E i \in DOMAIN addresses : addresses[i].chain = chain
    THEN <<addresses[CHOOSE i \in DOMAIN addresses : addresses[i].chain = chain].address, chain>>
    ELSE <<addresses[1].address, addresses[1].chain>>

\* chain_mapping.get(chain.lower(), chain)
target_chain(chain) ==
    LET c == Lower(chain)
    IN  IF c = ETHEREUM \/ c = ETH_ALIAS THEN ETHEREUM
        ELSE IF c = BSC \/ c = BINANCE THEN BSC
        ELSE chain

\* `pair_chain == target_chain or (chain == "ethereum" and pair_chain in [...])`
OnPreferredChain(pair, chain) ==
    LET pair_chain == Lower(pair.chainId)
    IN  \/ pair_chain = target_chain(chain)
        \/ (chain = ETHEREUM /\ pair_chain \in {ETHEREUM, ETH_ALIAS})

\* One pass of `if liquidity > max_liquidity: max_liquidity = liquidity; best_pair = pair`
\* over the pairs at positions i..Len(pairs) that pass the filter `keep`.
RECURSIVE BestFrom(_, _, _, _)
BestFrom(pairs, keep, i, best) ==
    IF i > Len(pairs) THEN best
    ELSE IF i \in keep /\ pairs[i].liquidity > best.max_liquidity
         THEN BestFrom(pairs, keep, i + 1, [at |-> i, max_liquidity |-> pairs[i].liquidity])
         ELSE BestFrom(pairs, keep, i + 1, best)

\* The two selection loops: preferred-chain pairs first, all pairs if none was taken.
SelectPair(pairs, chain) ==
    LET start == [at |-> 0, max_liquidity |-> 0]
        preferred == BestFrom(pairs, {i \in DOMAIN pairs : OnPreferredChain(pairs[i], chain)},
                              1, start)
    IN  IF preferred.at # 0 THEN preferred
        ELSE BestFrom(pairs, DOMAIN pairs, 1, preferred)

\* The scam-protection floor in `if best_pair and max_liquidity > 50000`
LIQUIDITY_FLOOR == 50000

AtOrAboveFloor(max_liquidity) == max_liquidity >= LIQUIDITY_FLOOR
AboveFloor(max_liquidity) == max_liquidity > LIQUIDITY_FLOOR

\* The try block of the DEX Screener branch, given what the pair-search
\* request answered: what it returns, or that it raises (session.get times
\* out or fails; address[:16] on a pair without a base-token address).
DexAttempt(chain, response) ==
    IF response.kind # "http" THEN [raised |-> TRUE, result |-> <<None, chain>>]
    ELSE IF response.status # 200 THEN [raised |-> FALSE, result |-> <<None, chain>>]
    ELSE IF response.pairs = << >> THEN [raised |-> FALSE, result |-> <<None, chain>>]
    ELSE LET best == SelectPair(response.pairs, chain)
         IN  IF best.at # 0 /\ AboveFloor(best.max_liquidity)
             THEN IF response.pairs[best.at].address = None
                  THEN [raised |-> TRUE, result |-> <<None, chain>>]
                  ELSE [raised |-> FALSE,
                        result |-> <<response.pairs[best.at].address,
                                     response.pairs[best.at].chainId>>]
             ELSE [raised |-> FALSE, result |-> <<None, chain>>]

\* `except asyncio.TimeoutError: return None, chain` and `except Exception:
\* return None, chain`
LookupErrorPropagates(chain, attempt) == attempt
LookupErrorCaught(chain, attempt) ==
    IF attempt.raised THEN [raised |-> FALSE, result |-> <<None, chain>>] ELSE attempt

\* The DEX Screener branch as a whole.
DexLookup(chain, response) == LookupErrorCaught(chain, DexAttempt(chain, response)).result

\* resolve_token_address(session, symbol, chain): the (address, chain) returned,
\* the number of pair-search requests sent, and whether the call raised.
resolve_token_address(symbol, chain, response) ==
    LET clean == symbol_clean(symbol)
    IN  IF InTable(clean)
        THEN [result |-> TableLookup(TableEntry(clean).addresses, chain), outbound |-> 0,
              raised |-> FALSE]
        ELSE [result |-> DexLookup(chain, response), outbound |-> 1,
              raised |-> LookupErrorCaught(chain, DexAttempt(chain, response)).raised]

\* cache_key = f"{symbol}_{chain}"
cache_key(symbol, chain) == symbol \o <<"_">> \o chain

\* `self._address_cache[cache_key] = result`
CacheStoreFoundOnly(cache, key, result) ==
    IF result[1] = None THEN cache ELSE (key :> result) @@ cache
CacheStoreFirstWins(cache, key, result) ==
    IF key \in DOMAIN cache THEN cache ELSE (key :> result) @@ cache
CacheStore(cache, key, result) == (key :> result) @@ cache

\* OnChainInspector.resolve_address: the result, the outbound requests made and
\* the cache afterwards.
resolve_address(cache, symbol, chain, response) ==
    LET key == cache_key(symbol, chain)
    IN  IF key \in DOMAIN cache
        THEN [result |-> cache[key], outbound |-> 0, cache |-> cache, hit |-> TRUE]
        ELSE LET r == resolve_token_address(symbol, chain, response)
             IN  [result |-> r.result, outbound |-> r.outbound,
                  cache |-> CacheStore(cache, key, r.result), hit |-> FALSE]

(***************************************************************************)
(* WalletClassifier: OnChainInspector._classify_wallet.  A registry is the *)
(* sequence of its (address, label) items in dict order; addresses are     *)
(* sequences of characters.                                                *)
(***************************************************************************)
\* `for addr, label in registry.items(): if addr.lower() == addr_lower`
Matches(registry, address) ==
    {i \in DOMAIN registry : Lower(registry[i].address) = Lower(address)}

FirstLabel(registry, address) ==
    registry[CHOOSE i \in Matches(registry, address) :
                \A j \in Matches(registry, address) : i <= j].label

classify_wallet_exchanges_first(wallets, address) ==
    IF Matches(wallets.exchanges, address) # {}
    THEN <<"exchange", FirstLabel(wallets.exchanges, address)>>
    ELSE IF Matches(wallets.whales, address) # {}
    THEN <<"whale", FirstLabel(wallets.whales, address)>>
    ELSE IF Matches(wallets.market_makers, address) # {}
    THEN <<"market_maker", FirstLabel(wallets.market_makers, address)>>
    ELSE <<"unknown", "Unknown">>
classify_wallet(wallets, address) ==
    IF Matches(wallets.whales, address) # {}
    THEN <<"whale", FirstLabel(wallets.whales, address)>>
    ELSE IF Matches(wallets.exchanges, address) # {}
    THEN <<"exchange", FirstLabel(wallets.exchanges, address)>>
    ELSE IF Matches(wallets.market_makers, address) # {}
    THEN <<"market_maker", FirstLabel(wallets.market_makers, address)>>
    ELSE <<"unknown", "Unknown">>

(***************************************************************************)
(* TransferFetcher: the chain dispatch of fetch_recent_transfers.  The     *)
(* feed's answer carries the records already normalised to Transfers.      *)
(***************************************************************************)
\* The keys of CHAIN_MAP
EVM_CHAINS ==
    {ETHEREUM, ETH_ALIAS, BSC, BINANCE, <<"b", "a", "s", "e">>,
     <<"a", "v", "a", "l", "a", "n", "c", "h", "e">>,
     <<"a", "v", "a", "x">>,
     <<"p", "o", "l", "y", "g", "o", "n">>,
     <<"a", "r", "b", "i", "t", "r", "u", "m">>,
     <<"o", "p", "t", "i", "m", "i", "s", "m">>,
     <<"f", "a", "n", "t", "o", "m">>}

\* What one explorer / indexer request answers: a timeout or other exception,
\* or an HTTP status with (for 200) the body's own status flag and records.
fetch_recent_transfers(chain, feed) ==
    LET chain_key == Lower(chain)
    IN  IF chain_key = SOLANA
        THEN IF feed.kind = "http" /\ feed.status = 200 THEN feed.records ELSE << >>
        ELSE IF chain_key \notin EVM_CHAINS THEN << >>
        ELSE IF feed.kind = "http" /\ feed.status = 200 /\ feed.body_ok
             THEN feed.records ELSE << >>

(***************************************************************************)
(* The explorer / indexer request of fetch_recent_transfers in detail: the *)
(* answer carries the raw records of the JSON body.  A raw field is        *)
(*   [kind |-> "ok", n |-> k]    present and numeric                       *)
(*   [kind |-> "missing"]        the key is not in the record              *)
(*   [kind |-> "malformed"]      present, and int() / fromtimestamp() of   *)
(*                               it raises                                 *)
(* A fetched quantity is kept exact as raw / 10^decimals.                  *)
(***************************************************************************)
Numeric(k) == [kind |-> "ok", n |-> k]
Missing == [kind |-> "missing"]
Malformed == [kind |-> "malformed"]

EVM_DEFAULT_DECIMALS == 18
SOLANA_DEFAULT_DECIMALS == 9

\* int(tx.get(key, default)): the default when the key is missing, an
\* exception when the value does not convert.
GetInt(field, default) ==
    IF field.kind = "missing" THEN [raised |-> FALSE, n |-> default]
    ELSE IF field.kind = "malformed" THEN [raised |-> TRUE, n |-> 0]
    ELSE [raised |-> FALSE, n |-> field.n]

\* The body of the per-record try: the Transfer built from one raw record,
\* or raised when a conversion raises.
BuildTransfer(wallets, tx, default_decimals) ==
    LET decimals == GetInt(tx.decimals, default_decimals)
        value == GetInt(tx.value, 0)
        timestamp == GetInt(tx.timestamp, 0)
        from == classify_wallet(wallets, tx.from)
        to == classify_wallet(wallets, tx.to)
    IN  IF decimals.raised \/ value.raised \/ timestamp.raised
        THEN [raised |-> TRUE]
        ELSE [raised |-> FALSE,
              transfer |-> [tx_hash |-> tx.hash, from_address |-> tx.from,
                            to_address |-> tx.to,
                            value |-> [raw |-> value.n, decimals |-> decimals.n],
                            value_usd |-> 0, timestamp |-> timestamp.n,
                            from_type |-> from[1], to_type |-> to[1],
                            from_label |-> from[2], to_label |-> to[2]]]

\* `except: continue` around the per-record body.
RecordErrorSkipped(built) == [skip |-> built.raised, fail |-> FALSE]

\* The loop over the raw records: the transfers appended, in order.
RECURSIVE BuildTransfers(_, _, _)
BuildTransfers(wallets, records, default_decimals) ==
    IF records = << >> THEN [raised |-> FALSE, transfers |-> << >>]
    ELSE LET built == BuildTransfer(wallets, Head(records), default_decimals)
             handled == RecordErrorSkipped(built)
             rest == BuildTransfers(wallets, Tail(records), default_decimals)
         IN  IF handled.fail \/ rest.raised
             THEN [raised |-> TRUE, transfers |-> << >>]
             ELSE IF handled.skip THEN rest
             ELSE [raised |-> FALSE,
                   transfers |-> <<built.transfer>> \o rest.transfers]

\* The try body of the EVM branch: one request; non-200 and a body whose
\* status is not "1" return the empty list, a timeout or a connection
\* error raises.
EvmAttempt(wallets, answer) ==
    IF answer.kind # "http" THEN [raised |-> TRUE, transfers |-> << >>]
    ELSE IF answer.status # 200 THEN [raised |-> FALSE, transfers |-> << >>]
    ELSE IF ~answer.body_ok THEN [raised |-> FALSE, transfers |-> << >>]
    ELSE BuildTransfers(wallets, answer.records, EVM_DEFAULT_DECIMALS)

\* The try body of fetch_solana_transfers: 429 and every other non-200
\* return the empty list.
SolanaAttempt(wallets, answer) ==
    IF answer.kind # "http" THEN [raised |-> TRUE, transfers |-> << >>]
    ELSE IF answer.status = 429 THEN [raised |-> FALSE, transfers |-> << >>]
    ELSE IF answer.status # 200 THEN [raised |-> FALSE, transfers |-> << >>]
    ELSE BuildTransfers(wallets, answer.records, SOLANA_DEFAULT_DECIMALS)

\* `except Exception as e: ... return []` around each request.
FetchErrorPropagates(attempt) == attempt
FetchErrorCaught(attempt) ==
    IF attempt.raised THEN [raised |-> FALSE, transfers |-> << >>] ELSE attempt

\* fetch_recent_transfers with the raw answer: what it returns, how many
\* requests it made, whether it raised.
fetch_transfers(wallets, chain, answer) ==
    LET chain_key == Lower(chain)
    IN  IF chain_key = SOLANA
        THEN LET r == FetchErrorCaught(SolanaAttempt(wallets, answer))
             IN  [transfers |-> r.transfers, outbound |-> 1, raised |-> r.raised]
        ELSE IF chain_key \notin EVM_CHAINS
        THEN [transfers |-> << >>, outbound |-> 0, raised |-> FALSE]
        ELSE LET r == FetchErrorCaught(EvmAttempt(wallets, answer))
             IN  [transfers |-> r.transfers, outbound |-> 1, raised |-> r.raised]

\* The signal inspect_by_symbol returns when no address was resolved.
NoAddressSignal ==
    [signal_type |-> "NEUTRAL", confidence_score |-> 30,
     evidence |-> <<[kind |-> "no_contract_address", amount |-> 0]>>,
     whale_transfers |-> 0, exchange_deposits |-> 0, exchange_withdrawals |-> 0,
     market_maker_activity |-> FALSE, analyzed_transfers |-> 0]

\* OnChainInspector.inspect_by_symbol: resolve, fetch, score.
inspect_by_symbol(cache, symbol, chain, current_price, response, feed, clock) ==
    LET r == resolve_address(cache, symbol, chain, response)
        fetched == IF r.result[1] = None THEN << >>
                   ELSE fetch_recent_transfers(r.result[2], feed)
    IN  [resolved |-> r,
         fetched |-> fetched,
         signal |-> IF r.result[1] = None THEN NoAddressSignal
                    ELSE analyze_transfers(fetched, current_price, clock)]

(***************************************************************************)
(* MarketScanner: BinanceFuturesScanner.analyze_pair and scan.             *)
(*                                                                         *)
(* What the market-data feed answers for one symbol:                       *)
(*   volumes  candle[5] of the candles _fetch_ohlcv returned, oldest first *)
(*            (empty when the request failed: the exception is caught)     *)
(*   ticker   NoTicker when _fetch_ticker failed, else last and percentage *)
(*   raises   the evaluation raises (a malformed answer)                   *)
(* A spike ratio is the exact fraction num/den with den > 0.               *)
(***************************************************************************)
NoTicker == [available |-> FALSE, last |-> 0, percentage |-> 0]
Ticker(last, percentage) == [available |-> TRUE, last |-> last, percentage |-> percentage]

FracGeq(a, b) == a.num * b.den >= b.num * a.den
FracEq(a, b) == a.num * b.den = b.num * a.den

\* volume_ratio = current_volume / avg_volume if avg_volume > 0 else 0, where
\* avg_volume = sum(volumes[:-1]) / len(volumes[:-1])
volume_ratio(volumes) ==
    LET previous == SubSeq(volumes, 1, Len(volumes) - 1)
    IN  IF SeqSum(previous) > 0
        THEN [num |-> volumes[Len(volumes)] * Len(previous), den |-> SeqSum(previous)]
        ELSE [num |-> 0, den |-> 1]

\* volume_5m_usd = current_volume * current_price if current_price > 0 else 0
volume_5m_usd(current_volume, current_price) ==
    IF current_price > 0 THEN current_volume * current_price ELSE 0

\* `if volume_5m_usd < MIN_VOLUME_USD_5M: return None`
BelowVolumeFloorNever(usd) == FALSE
BelowVolumeFloor(usd) == usd < MIN_VOLUME_USD_5M

is_volume_spike(ratio) == ratio.num >= VOLUME_SPIKE_MULTIPLIER * ratio.den
is_price_momentum(percentage) == Abs(percentage) >= PRICE_CHANGE_THRESHOLD

\* symbol.split('/')[0]
RECURSIVE SplitHead(_)
SplitHead(symbol) ==
    IF symbol = << >> \/ Head(symbol) = "/" THEN << >>
    ELSE <<Head(symbol)>> \o SplitHead(Tail(symbol))

\* BinanceFuturesScanner._get_token_address
get_token_address(base_asset) ==
    LET asset_upper == Upper(base_asset)
    IN  IF InTable(asset_upper)
        THEN LET addresses == TableEntry(asset_upper).addresses
                 on(chain) == {i \in DOMAIN addresses : addresses[i].chain = chain}
             IN  IF on(ETHEREUM) # {}
                 THEN <<addresses[CHOOSE i \in on(ETHEREUM) : TRUE].address, ETHEREUM>>
                 ELSE IF on(BSC) # {}
                 THEN <<addresses[CHOOSE i \in on(BSC) : TRUE].address, BSC>>
                 ELSE <<None, UNKNOWN>>
        ELSE <<None, UNKNOWN>>

NoResult == [kind |-> "none"]
Failed == [kind |-> "exception"]

\* analyze_pair(symbol): a ScanResult, None, or an exception.
analyze_pair(symbol, data) ==
    IF data.raises THEN Failed
    ELSE IF Len(data.volumes) < 2 \/ ~data.ticker.available THEN NoResult
    ELSE
    LET current_volume == data.volumes[Len(data.volumes)]
        ratio == volume_ratio(data.volumes)
        usd == volume_5m_usd(current_volume, data.ticker.last)
        token == get_token_address(SplitHead(symbol))
    IN  IF BelowVolumeFloor(usd) THEN NoResult
        ELSE IF ~(is_volume_spike(ratio) \/ is_price_momentum(data.ticker.percentage))
        THEN NoResult
        ELSE [kind |-> "result",
              symbol |-> symbol,
              base_asset |-> SplitHead(symbol),
              current_price |-> data.ticker.last,
              price_change_1h |-> data.ticker.percentage,
              volume_5m |-> current_volume,
              volume_usd_5m |-> usd,
              avg_volume_1h |-> [num |-> SeqSum(SubSeq(data.volumes, 1, Len(data.volumes) - 1)),
                                 den |-> Len(data.volumes) - 1],
              volume_spike_ratio |-> ratio,
              trigger_reason |-> (IF is_volume_spike(ratio) THEN <<"Volume Spike">> ELSE << >>)
                                 \o (IF is_price_momentum(data.ticker.percentage)
                                     THEN <<"Price">> ELSE << >>),
              token_address |-> token[1],
              chain |-> token[2]]

\* scan_results = await asyncio.gather(*tasks, return_exceptions=True): the
\* results in the order of the tasks, whatever order they finished in.
GatherInCompletionOrder(results, finished) == [i \in DOMAIN results |-> results[finished[i]]]
Gather(results, finished) == [i \in DOMAIN results |-> results[i]]

\* gather(*tasks, return_exceptions=True): an exception of a task is a value
\* of the result list; without the flag gather raises the first one.
FirstExceptionRaised(failed) == failed
ExceptionsReturned(failed) == FALSE

gather_raises(results) ==
    ExceptionsReturned(\E i \in DOMAIN results : results[i] = Failed)

\* asyncio.Semaphore(max_concurrent): a task enters while the counter is
\* positive.
SlotAlwaysFree(held, limit) == TRUE
SlotFree(held, limit) == held < limit

\* `if isinstance(result, ScanResult): results.append(result)`
RECURSIVE KeepResults(_)
KeepResults(rs) ==
    IF rs = << >> THEN << >>
    ELSE (IF Head(rs).kind = "result" THEN <<Head(rs)>> ELSE << >>) \o KeepResults(Tail(rs))

\* list.sort(key=volume_spike_ratio, reverse=True) is stable: x goes before the
\* first element with a smaller key, after every element with an equal key.
RECURSIVE InsertDescending(_, _)
InsertDescending(sorted, x) ==
    IF sorted = << >> THEN <<x>>
    ELSE IF FracGeq(Head(sorted).volume_spike_ratio, x.volume_spike_ratio)
         THEN <<Head(sorted)>> \o InsertDescending(Tail(sorted), x)
         ELSE <<x>> \o sorted

RECURSIVE SortDescending(_)
SortDescending(rs) ==
    IF rs = << >> THEN << >>
    ELSE InsertDescending(SortDescending(SubSeq(rs, 1, Len(rs) - 1)), rs[Len(rs)])

\* The tail of scan(): keep the ScanResults, sort them.
scan_return(results, finished) == SortDescending(KeepResults(Gather(results, finished)))

\* scan() as one call: every symbol evaluated, results gathered and ranked.
scan(symbols, feed) ==
    scan_return([i \in DOMAIN symbols |-> analyze_pair(symbols[i], feed[i])],
                [i \in DOMAIN symbols |-> i])

(***************************************************************************)
(* Momentum analysis: get_advanced_analysis.  The exchange answers the     *)
(* candle requests (or fails); the 5-minute change is the exact fraction   *)
(* (close - open) * 100 / open of the last 5-minute candle.                *)
(***************************************************************************)
NoAnalysis == [kind |-> "none"]

get_advanced_analysis(symbol, candles) ==
    IF candles.kind # "ok" THEN NoAnalysis
    ELSE LET change_5m_pct == IF candles.has_5m
                              THEN [num |-> (candles.close - candles.open) * 100,
                                    den |-> candles.open]
                              ELSE [num |-> 0, den |-> 1]
         IN  [kind |-> "analysis",
              symbol |-> symbol,
              price |-> candles.price,
              direction |-> IF change_5m_pct.num > 0 THEN "LONG" ELSE "SHORT",
              bb_upper |-> candles.bb_upper,
              bb_lower |-> candles.bb_lower,
              change_5m |-> change_5m_pct]

(***************************************************************************)
(* Orchestrator: FuturesIntelligenceBot.                                   *)
(***************************************************************************)
cooldown_seconds == 300
TOP_OPPORTUNITIES == 5

\* _should_alert(symbol), read at wall-clock time `clock`
ShouldAlertAtLimit(cooldown, symbol, clock) ==
    \/ symbol \notin DOMAIN cooldown
    \/ clock - cooldown[symbol] >= cooldown_seconds
should_alert(cooldown, symbol, clock) ==
    \/ symbol \notin DOMAIN cooldown
    \/ clock - cooldown[symbol] > cooldown_seconds

\* _mark_alerted(symbol)
mark_alerted(cooldown, symbol, clock) == (symbol :> clock) @@ cooldown

\* `if abs(pct_val) < 1.0: continue`
WeakMomentumNever(pct_val) == FALSE
WeakMomentum(pct_val) == Abs(pct_val.num) < pct_val.den

\* `try: signal = await self.process_opportunity(...) except Exception: signal
\* = None`: where the cycle goes after the corroboration step.
InspectorErrorAborts(raised) == IF raised THEN "sleep" ELSE "send"
InspectorErrorCaught(raised) == "send"

\* `except Exception as e: logger.error(...)` around the body of
\* run_scan_cycle: where the main loop stands after a step at `at` raised.
CycleErrorPropagates(at) == "stopped"
CycleErrorCaught(at) == "sleep"

\* severity of the alert (lines 199-204)
Severity(onchain_signal) ==
    IF onchain_signal.signal_type \in {"SHORT", "LONG"} THEN "HIGH" ELSE "LOW"

\* The dict handed to signal_manager.add_signal, with the timestamp it gets.
AlertRecordAnalysisPrice(scan_result, analysis_result, clock) ==
    [coin |-> SplitHead(analysis_result.symbol),
     emoji |-> IF analysis_result.direction = "LONG" THEN "green" ELSE "red",
     price |-> analysis_result.price,
     volume |-> scan_result.volume_usd_5m,
     volume_spike |-> scan_result.volume_spike_ratio,
     bb_target |-> IF analysis_result.direction = "LONG"
                   THEN analysis_result.bb_lower ELSE analysis_result.bb_upper,
     change_5m |-> analysis_result.change_5m,
     direction |-> analysis_result.direction,
     timestamp |-> clock]
AlertRecord(scan_result, analysis_result, clock) ==
    [coin |-> SplitHead(analysis_result.symbol),
     emoji |-> IF analysis_result.direction = "LONG" THEN "green" ELSE "red",
     price |-> scan_result.current_price,
     volume |-> scan_result.volume_usd_5m,
     volume_spike |-> scan_result.volume_spike_ratio,
     bb_target |-> IF analysis_result.direction = "LONG"
                   THEN analysis_result.bb_lower ELSE analysis_result.bb_upper,
     change_5m |-> analysis_result.change_5m,
     direction |-> analysis_result.direction,
     timestamp |-> clock]

\* The end of one loop iteration over opportunities[:5]: the next one, or the
\* end of the cycle.
NextIterationOverAll(i, found) ==
    IF i < Len(found) THEN <<"gate", i + 1>> ELSE <<"sleep", 0>>
NextIteration(i, found) ==
    IF i < Min(Len(found), TOP_OPPORTUNITIES) THEN <<"gate", i + 1>> ELSE <<"sleep", 0>>

(***************************************************************************)
(* Inputs of the inspector specifications.                                 *)
(***************************************************************************)
MaxTransfers == 4
MaxFetched == 2
MaxPairs == 1

Transfer(from_type, to_type, value, timestamp) ==
    [from_type |-> from_type, to_type |-> to_type, value |-> value,
     value_usd |-> 0, timestamp |-> timestamp]

\* Events happen at time 1000 or 5000 and are scored at wall-clock time 5000
\* (the later event is within the last hour) or 8600 (it is exactly one hour old).
Clocks == {5000, 8600}

TransferPool ==
    { Transfer("whale", "exchange", 200000, 1000),
      Transfer("whale", "exchange", 200000, 5000),
      Transfer("exchange", "whale", 600000, 1000),
      Transfer("market_maker", "unknown", 200000, 1000),
      Transfer("whale", "market_maker", 200000, 5000) }

Prices == {0, 1, 2}

\* Fresh Transfer objects for the same history, as a fetch builds them.
Fresh(ts) == [i \in DOMAIN ts |-> [ts[i] EXCEPT !.value_usd = 0]]

FOO == <<"F", "O", "O">>
ETH == <<"E", "T", "H">>
BNB == <<"B", "N", "B">>

ResolveSymbols == {ETH, BNB, FOO}
ResolveChains == {ETHEREUM, BSC}

PairPool ==
    { [chainId |-> c, liquidity |-> l,
       address |-> IF c = ETHEREUM THEN "0xF00onEthereum" ELSE "0xF00onBsc"] :
        c \in {ETHEREUM, BSC}, l \in {0, 50000, 90000} }

PairSearchResponses ==
    { [kind |-> "timeout"], [kind |-> "http", status |-> 429, pairs |-> << >>] }
    \cup { [kind |-> "http", status |-> 200, pairs |-> ps] : ps \in SeqsUpTo(PairPool, MaxPairs) }

\* No request is sent (the answer of a request that is never made).
NoRequest == [kind |-> "none"]

NoCall == [symbol |-> << >>, chain |-> << >>, result |-> <<None, << >> >>,
           outbound |-> 0, hit |-> FALSE]

ResolveCall(symbol, chain, r) ==
    [symbol |-> symbol, chain |-> chain, result |-> r.result,
     outbound |-> r.outbound, hit |-> r.hit]

\* What the transfer-history request answers when the chain holds history ts.
FeedResponses(ts) ==
    { [kind |-> "timeout"],
      [kind |-> "http", status |-> 200, body_ok |-> TRUE, records |-> Fresh(ts)] }

(***************************************************************************)
(* BinanceFuturesScanner.fetch_usdt_futures_pairs and its cache.  Times    *)
(* are whole seconds.                                                      *)
(***************************************************************************)
CACHE_SECONDS == 3600
SECONDS_PER_DAY == 86400

\* timedelta.seconds: the seconds field of the normalized (days, seconds,
\* microseconds) of the difference, from 0 to 86399.
TimedeltaSeconds(elapsed) == elapsed % SECONDS_PER_DAY

Market(symbol, quote, swap, active) ==
    [symbol |-> symbol, quote |-> quote, swap |-> swap, active |-> active]

\* `sub in s`
Contains(s, sub) ==
    \E i \in 1..(Len(s) - Len(sub) + 1) : SubSeq(s, i, i + Len(sub) - 1) = sub

IsUsdtPerpetual(m) ==
    /\ m.quote = "USDT"
    /\ m.swap
    /\ m.active
    /\ Contains(m.symbol, <<":", "U", "S", "D", "T">>)

RECURSIVE UsdtPairs(_)
UsdtPairs(markets) ==
    IF markets = << >> THEN << >>
    ELSE (IF IsUsdtPerpetual(Head(markets)) THEN <<Head(markets).symbol>> ELSE << >>)
             \o UsdtPairs(Tail(markets))

\* _cache_time: None, or the datetime of the last successful load.
NoCacheTime == [set |-> FALSE, at |-> 0]
CacheTime(clock) == [set |-> TRUE, at |-> clock]

\* The condition of the early return, but for force_refresh.
CacheFresh(cache, filled, clock) ==
    /\ cache # << >>
    /\ filled.set
    /\ TimedeltaSeconds(clock - filled.at) < CACHE_SECONDS

\* fetch_usdt_futures_pairs: what it returns, the cache it leaves, how often
\* it called load_markets.
fetch_usdt_futures_pairs(cache, filled, clock, force_refresh, answer) ==
    IF ~force_refresh /\ CacheFresh(cache, filled, clock)
    THEN [result |-> cache, cache |-> cache, cache_time |-> filled, loads |-> 0]
    ELSE IF answer.kind = "markets"
    THEN [result |-> UsdtPairs(answer.markets), cache |-> UsdtPairs(answer.markets),
          cache_time |-> CacheTime(clock), loads |-> 1]
    ELSE [result |-> cache, cache |-> cache, cache_time |-> filled, loads |-> 1]

PairsIdle ==
    /\ pairs_cache = << >>
    /\ cache_time = NoCacheTime
    /\ pairs_call = [phase |-> "none"]

(***************************************************************************)
(* SignalManager and Database.  A signal is [coin, tag, stamped,           *)
(* timestamp] as passed by the caller, tag standing for the rest of its    *)
(* content; it is kept with an id in the JSON list and without one as a    *)
(* row of the table.                                                       *)
(***************************************************************************)
CLEANUP_HOURS == 5

\* `if 'timestamp' not in signal: signal['timestamp'] = datetime.now().isoformat()`
Stamp(sig, clock) == IF sig.stamped THEN sig.timestamp ELSE clock

NoFile == [exists |-> FALSE, content |-> << >>]
File(content) == [exists |-> TRUE, content |-> content]

\* _save_signals: the file rewritten, or left as it was when the write raises.
save_signals(list, file, written) == IF written THEN File(list) ELSE file

\* `signal['id'] = len(self.signals) + 1`
NextId(list) == Len(list) + 1

\* `self.signals = self.signals[:self.max_signals]` when longer
Trim(list, max_signals) ==
    IF Len(list) > max_signals THEN SubSeq(list, 1, max_signals) ELSE list

\* The JSON branch of add_signal: the list it leaves.
add_to_list(list, sig, timestamp, max_signals) ==
    Trim(<<[id |-> NextId(list), coin |-> sig.coin, tag |-> sig.tag,
            timestamp |-> timestamp]>> \o list,
         max_signals)

\* _is_signal_recent: `signal_time > cutoff_time`
is_signal_recent(sig, cutoff_time) == sig.timestamp > cutoff_time

\* _cleanup_old_signals: the signals newer than the cutoff.
cleanup_old_signals(list, clock) ==
    LET cutoff_time == clock - CLEANUP_HOURS * SecondsPerHour
        Recent(sig) == is_signal_recent(sig, cutoff_time)
    IN  SelectSeq(list, Recent)

\* Database.cleanup_old_signals: `DELETE FROM signals WHERE timestamp < cutoff`
db_cleanup(rows, clock) ==
    LET cutoff_time == clock - CLEANUP_HOURS * SecondsPerHour
        Kept(row) == ~(row.timestamp < cutoff_time)
    IN  SelectSeq(rows, Kept)

\* A False returned by Database.add_signal ends add_signal like a True does
\* (`return` after the `if success:` block); only an exception reaches the
\* JSON branch.
FallsBackOnException(insert, cleanup) ==
    insert = "raised" \/ (insert = "inserted" /\ cleanup = "raised")

\* add_signal: the rows and the list it leaves, and whether it reached the
\* JSON branch.  insert: "inserted" | "rejected" (False returned) |
\* "raised"; cleanup: "done" | "raised".
add_signal(postgres, rows, list, sig, clock, max_signals, insert, cleanup) ==
    LET timestamp == Stamp(sig, clock)
        inserted == postgres /\ insert = "inserted"
        row == [coin |-> sig.coin, tag |-> sig.tag, timestamp |-> timestamp]
        rows_after ==
            IF ~inserted THEN rows
            ELSE IF cleanup = "done" THEN db_cleanup(Append(rows, row), clock)
            ELSE Append(rows, row)
        json == ~postgres \/ FallsBackOnException(insert, cleanup)
    IN  [rows |-> rows_after,
         list |-> IF json THEN add_to_list(list, sig, timestamp, max_signals) ELSE list,
         json |-> json, timestamp |-> timestamp]

SignalsIdle ==
    /\ use_postgres = FALSE
    /\ signals = << >>
    /\ disk = NoFile
    /\ db_rows = << >>
    /\ add_call = [phase |-> "none", tag |-> 0]

StoreIdle == PairsIdle /\ SignalsIdle

ScoreIdle ==
    /\ transfers = << >>
    /\ scored_input = << >>
    /\ scored_price = -1
    /\ signal = NoSignal

ResolveIdle ==
    /\ address_cache = << >>
    /\ resolve_call = NoCall

\* No resolve_token_address, concurrent resolve or fetch call is being followed.
NotCalled == [phase |-> "none"]

NoWallets == [whales |-> << >>, exchanges |-> << >>, market_makers |-> << >>]

CallIdle ==
    /\ lookup_call = NotCalled
    /\ resolvers = << >>
    /\ known_wallets = NoWallets
    /\ fetch_call = NotCalled
    /\ classify_call = NotCalled

ScanIdle ==
    /\ scan_symbols = << >>
    /\ market = << >>
    /\ max_concurrent = 0
    /\ task = << >>
    /\ completion = << >>
    /\ task_result = << >>
    /\ scan_output = << >>
    /\ scan_pc = "idle"

OrchIdle ==
    /\ running = FALSE
    /\ pc = "stopped"
    /\ opportunities = << >>
    /\ idx = 0
    /\ analysis = NoAnalysis
    /\ onchain = NoSignal
    /\ alert_cooldown = << >>
    /\ alerts = << >>
    /\ cycle_log = << >>

(***************************************************************************)
(* SpecScore: analyze_transfers called on a caller-held Transfer list.     *)
(***************************************************************************)
InitScore ==
    /\ now \in Clocks
    /\ transfers \in SeqsUpTo(TransferPool, MaxTransfers)
    /\ scored_input = << >>
    /\ scored_price = -1
    /\ signal = NoSignal
    /\ ResolveIdle /\ StoreIdle /\ CallIdle /\ ScanIdle /\ OrchIdle

\* signal = inspector.analyze_transfers(transfers, current_price)
Analyze(current_price) ==
    /\ signal' = analyze_transfers(transfers, current_price, now)
    /\ transfers' = Priced(transfers, current_price)
    /\ scored_input' = transfers
    /\ scored_price' = current_price
    /\ UNCHANGED <<now, storeVars, callVars, resolveVars, scanVars, orchVars>>

AnalyzeTransfers == \E current_price \in Prices : Analyze(current_price)

NextScore == AnalyzeTransfers

SpecScore == InitScore /\ [][NextScore]_vars

(***************************************************************************)
(* SpecResolve: resolve_address calls on one inspector.                    *)
(***************************************************************************)
InitResolve ==
    /\ now = 0
    /\ ScoreIdle /\ ResolveIdle /\ StoreIdle /\ CallIdle /\ ScanIdle /\ OrchIdle

\* result = await inspector.resolve_address(symbol, chain)
ResolveAddress ==
    \E symbol \in ResolveSymbols, chain \in ResolveChains :
        \E response \in IF cache_key(symbol, chain) \in DOMAIN address_cache
                        THEN {NoRequest} ELSE PairSearchResponses :
            LET r == resolve_address(address_cache, symbol, chain, response)
            IN  /\ address_cache' = r.cache
                /\ resolve_call' = ResolveCall(symbol, chain, r)
                /\ UNCHANGED <<now, storeVars, callVars, scoreVars, scanVars, orchVars>>

NextResolve == ResolveAddress

SpecResolve == InitResolve /\ [][NextResolve]_vars

(***************************************************************************)
(* SpecInspect: inspect_by_symbol (resolve, fetch, score) beside direct    *)
(* analyze_transfers calls, on one inspector.  `transfers` is the history  *)
(* the chain holds, which is also the list a caller scores directly.       *)
(***************************************************************************)
InspectSymbols == {ETH, FOO}
InspectPrices == {0, 2}

InspectResponses ==
    { [kind |-> "timeout"] }
    \cup { [kind |-> "http", status |-> 200, pairs |-> <<pair>>] :
             pair \in {q \in PairPool : q.chainId = ETHEREUM /\ q.liquidity > LIQUIDITY_FLOOR} }

InitInspect ==
    /\ now \in Clocks
    /\ transfers \in SeqsUpTo(TransferPool, MaxFetched)
    /\ scored_input = << >>
    /\ scored_price = -1
    /\ signal = NoSignal
    /\ ResolveIdle /\ StoreIdle /\ CallIdle /\ ScanIdle /\ OrchIdle

\* signal = await inspector.inspect_by_symbol(symbol, chain, current_price)
InspectBySymbol ==
    \E symbol \in InspectSymbols, current_price \in InspectPrices :
        \E response \in IF cache_key(symbol, ETHEREUM) \in DOMAIN address_cache
                        THEN {NoRequest} ELSE InspectResponses,
           feed \in FeedResponses(transfers) :
            LET r == inspect_by_symbol(address_cache, symbol, ETHEREUM, current_price,
                                       response, feed, now)
            IN  /\ signal' = r.signal
                /\ address_cache' = r.resolved.cache
                /\ resolve_call' = ResolveCall(symbol, ETHEREUM, r.resolved)
                /\ scored_input' = r.fetched
                /\ scored_price' = current_price
                /\ UNCHANGED <<now, storeVars, callVars, transfers, scanVars, orchVars>>

\* a direct analyze_transfers call on the list the caller holds
AnalyzeHeld == \E current_price \in InspectPrices : Analyze(current_price)

NextInspect == AnalyzeHeld \/ InspectBySymbol

SpecInspect == InitInspect /\ [][NextInspect]_vars

(***************************************************************************)
(* SpecScan: one call of scan(symbols, max_concurrent).  Every symbol gets *)
(* a task; a task evaluates its symbol while it holds the semaphore; tasks *)
(* finish in any order; scan returns when all have finished.               *)
(***************************************************************************)
MaxScanSymbols == 2
MaxConcurrent == 2

Perpetual(base) == base \o <<"/", "U", "S", "D", "T", ":", "U", "S", "D", "T">>

ScanUniverse == <<Perpetual(ETH), Perpetual(FOO), Perpetual(BNB), Perpetual(<<"L", "I", "N", "K">>)>>

MarketData(volumes, ticker) == [volumes |-> volumes, ticker |-> ticker, raises |-> FALSE]

\* Spike ratios 10, 5 (as 2000/400), 5 (as 1000/200), 9.99 below the volume
\* floor, 4 without momentum; a one-candle history; no ticker; a failure.
MarketPool ==
    { MarketData(<<100, 1000>>, Ticker(100, 0)),
      MarketData(<<100, 300, 1000>>, Ticker(100, 0)),
      MarketData(<<200, 1000>>, Ticker(100, -4)),
      MarketData(<<100, 999>>, Ticker(100, 9)),
      MarketData(<<250, 1000>>, Ticker(100, 3)),
      MarketData(<<1000>>, Ticker(100, 9)),
      MarketData(<<100, 1000>>, NoTicker),
      [volumes |-> << >>, ticker |-> NoTicker, raises |-> TRUE] }

Pending == [kind |-> "pending"]

InitScan ==
    /\ now = 0
    /\ ScoreIdle /\ signal = NoSignal
    /\ ResolveIdle /\ StoreIdle /\ CallIdle
    /\ OrchIdle
    /\ \E n \in 0..MaxScanSymbols :
        /\ scan_symbols = SubSeq(ScanUniverse, 1, n)
        /\ market \in [1..n -> MarketPool]
    /\ max_concurrent \in 1..MaxConcurrent
    /\ task = << >>
    /\ completion = << >>
    /\ task_result = << >>
    /\ scan_output = << >>
    /\ scan_pc = "idle"

\* scan() up to `await asyncio.gather(*tasks, ...)`.
StartScan ==
    /\ scan_pc = "idle"
    /\ IF scan_symbols = << >>
       THEN /\ scan_pc' = "returned"
            /\ UNCHANGED <<task, task_result>>
       ELSE /\ scan_pc' = "gathering"
            /\ task' = [i \in DOMAIN scan_symbols |-> "waiting"]
            /\ task_result' = [i \in DOMAIN scan_symbols |-> Pending]
    /\ UNCHANGED <<now, storeVars, callVars, scoreVars, resolveVars, orchVars, scan_symbols, market,
                   max_concurrent, completion, scan_output>>

Holding == {i \in DOMAIN task : task[i] = "running"}

\* `async with semaphore`: the longest-waiting task enters when a slot is free.
Acquire(i) ==
    /\ scan_pc = "gathering"
    /\ task[i] = "waiting"
    /\ \A j \in DOMAIN task : task[j] = "waiting" => i <= j
    /\ SlotFree(Cardinality(Holding), max_concurrent)
    /\ task' = [task EXCEPT ![i] = "running"]
    /\ UNCHANGED <<now, storeVars, callVars, scoreVars, resolveVars, orchVars, scan_symbols, market,
                   max_concurrent, completion, task_result, scan_output, scan_pc>>

\* analyze_pair returns (or raises) and the task leaves the semaphore.
Finish(i) ==
    /\ scan_pc = "gathering"
    /\ task[i] = "running"
    /\ task' = [task EXCEPT ![i] = "done"]
    /\ task_result' = [task_result EXCEPT ![i] = analyze_pair(scan_symbols[i], market[i])]
    /\ completion' = Append(completion, i)
    /\ UNCHANGED <<now, storeVars, callVars, scoreVars, resolveVars, orchVars, scan_symbols, market,
                   max_concurrent, scan_output, scan_pc>>

\* gather resumes scan(): filter, sort, return.
ReturnScan ==
    /\ scan_pc = "gathering"
    /\ \A i \in DOMAIN task : task[i] = "done"
    /\ IF gather_raises(task_result)
       THEN /\ scan_output' = << >>
            /\ scan_pc' = "raised"
       ELSE /\ scan_output' = scan_return(task_result, completion)
            /\ scan_pc' = "returned"
    /\ UNCHANGED <<now, storeVars, callVars, scoreVars, resolveVars, orchVars, scan_symbols, market,
                   max_concurrent, task, completion, task_result>>

AcquireSlot == \E i \in DOMAIN task : Acquire(i)
FinishTask == \E i \in DOMAIN task : Finish(i)

NextScan == StartScan \/ AcquireSlot \/ FinishTask \/ ReturnScan

SpecScan == InitScan /\ [][NextScan]_vars

\* For the scheduling of the tasks: an opportunity, a rejected symbol, a
\* raising evaluation.
SlotMarketPool ==
    { MarketData(<<100, 1000>>, Ticker(100, 0)),
      MarketData(<<1000>>, Ticker(100, 9)),
      [volumes |-> << >>, ticker |-> NoTicker, raises |-> TRUE] }

InitSlots ==
    /\ now = 0
    /\ ScoreIdle /\ signal = NoSignal
    /\ ResolveIdle /\ StoreIdle /\ CallIdle
    /\ OrchIdle
    /\ \E n \in 0..MaxScanSymbols :
        /\ scan_symbols = SubSeq(ScanUniverse, 1, n)
        /\ market \in [1..n -> SlotMarketPool]
    /\ max_concurrent \in 1..MaxConcurrent
    /\ task = << >>
    /\ completion = << >>
    /\ task_result = << >>
    /\ scan_output = << >>
    /\ scan_pc = "idle"

\* The event loop runs every task that is ready, and each market-data
\* request ends (with its answer or its timeout).
SpecScanFair == InitSlots /\ [][NextScan]_vars /\ WF_vars(NextScan)

(***************************************************************************)
(* Spec: the main loop of FuturesIntelligenceBot.run.  A cycle scans, then *)
(* takes the first opportunities one at a time through the cooldown gate,  *)
(* the momentum analysis, the on-chain corroboration and the alert; every  *)
(* await is a step, and the wall clock advances between steps.             *)
(*   pc: "cycle" (run_scan_cycle about to scan), "gate", "analysis",       *)
(*       "inspect", "send", "pause" (the sleep after an alert), "sleep"    *)
(*       (between cycles), "stopped"                                       *)
(***************************************************************************)
MaxTime == 8902

Deltas == {150, 151}

OrchSymbols == <<Perpetual(ETH), Perpetual(FOO)>>

\* An opportunity of spike ratio 10 whose price fell by 5 %, or a symbol
\* under the volume floor.
OrchMarketPool ==
    { MarketData(<<100, 1000>>, Ticker(100, -5)),
      MarketData(<<100, 999>>, Ticker(100, 9)) }

\* The candle requests fail; or the last 5-minute candle moved by +0.99 %,
\* -1.00 % or +2.00 %, the last close being 101 by then.
CandleAnswers ==
    { [kind |-> "error"] }
    \cup { [kind |-> "ok", has_5m |-> TRUE, open |-> 10000, close |-> c,
            price |-> 101, bb_upper |-> 110, bb_lower |-> 90] : c \in {10099, 9900, 10200} }

\* Transfer histories the explorer may hold for a token.
OrchHistories ==
    { << >>,
      <<Transfer("whale", "exchange", 200000, 1000)>>,
      <<Transfer("whale", "exchange", 200000, 1000), Transfer("exchange", "whale", 600000, 1000)>> }

OrchFeeds == UNION {FeedResponses(ts) : ts \in OrchHistories}

Init ==
    /\ now = 8600
    /\ ScoreIdle /\ signal = NoSignal
    /\ ResolveIdle /\ StoreIdle /\ CallIdle
    /\ ScanIdle
    /\ running = TRUE
    /\ pc = "cycle"
    /\ opportunities = << >>
    /\ idx = 0
    /\ analysis = NoAnalysis
    /\ onchain = NoSignal
    /\ alert_cooldown = << >>
    /\ alerts = << >>
    /\ cycle_log = << >>

\* Wall-clock time passes.
Tick ==
    /\ \E d \in Deltas :
        /\ now + d <= MaxTime
        /\ now' = now + d
    /\ UNCHANGED <<storeVars, scoreVars, resolveVars, callVars, scanVars, orchVars>>

\* run_scan_cycle up to the loop: `opportunities = await self.scanner.scan()`.
\* A scan that raises, or finds nothing, ends the cycle.
RunScan ==
    /\ running /\ pc = "cycle"
    /\ \E found \in {<< >>} \cup {scan(OrchSymbols, feed) : feed \in [DOMAIN OrchSymbols -> OrchMarketPool]},
          raised \in BOOLEAN :
        /\ raised => found = << >>
        /\ opportunities' = found
        /\ cycle_log' = IF raised THEN <<[symbol |-> << >>, fate |-> "cycle_error"]>>
                        ELSE << >>
        /\ IF raised
           THEN pc' = CycleErrorCaught(pc) /\ idx' = 0
           ELSE IF found = << >>
           THEN pc' = "sleep" /\ idx' = 0
           ELSE pc' = "gate" /\ idx' = 1
    /\ analysis' = NoAnalysis
    /\ onchain' = NoSignal
    /\ UNCHANGED <<now, storeVars, callVars, scoreVars, resolveVars, scanVars, running, alert_cooldown, alerts>>

\* `if not self._should_alert(scan_result.symbol): continue`
CooldownGate ==
    /\ pc = "gate"
    /\ LET symbol == opportunities[idx].symbol
       IN  IF should_alert(alert_cooldown, symbol, now)
           THEN /\ pc' = "analysis"
                /\ UNCHANGED <<idx, cycle_log>>
           ELSE /\ pc' = NextIteration(idx, opportunities)[1]
                /\ idx' = NextIteration(idx, opportunities)[2]
                /\ cycle_log' = Append(cycle_log, [symbol |-> symbol, fate |-> "cooldown"])
    /\ analysis' = NoAnalysis
    /\ onchain' = NoSignal
    /\ UNCHANGED <<now, storeVars, callVars, scoreVars, resolveVars, scanVars, running, opportunities,
                   alert_cooldown, alerts>>

\* `analysis = await get_advanced_analysis(...)` and the two skips after it.
MomentumGate ==
    /\ pc = "analysis"
    /\ \E candles \in CandleAnswers :
        LET symbol == opportunities[idx].symbol
            result == get_advanced_analysis(symbol, candles)
            skipped == result = NoAnalysis \/ WeakMomentum(result.change_5m)
        IN  /\ analysis' = result
            /\ IF skipped
               THEN /\ pc' = NextIteration(idx, opportunities)[1]
                    /\ idx' = NextIteration(idx, opportunities)[2]
                    /\ cycle_log' = Append(cycle_log,
                            [symbol |-> symbol,
                             fate |-> IF result = NoAnalysis THEN "no_analysis"
                                      ELSE "weak_momentum"])
               ELSE /\ pc' = "inspect"
                    /\ UNCHANGED <<idx, cycle_log>>
    /\ UNCHANGED <<now, storeVars, callVars, scoreVars, resolveVars, scanVars, running, opportunities,
                   onchain, alert_cooldown, alerts>>

\* process_opportunity inside its try/except: the inspector returns a signal,
\* or the call raises (before or after the address was cached).
ProcessOpportunity ==
    /\ pc = "inspect"
    /\ LET scan_result == opportunities[idx]
           chain == IF scan_result.chain # UNKNOWN THEN scan_result.chain ELSE ETHEREUM
       IN  \E response \in IF cache_key(scan_result.base_asset, chain) \in DOMAIN address_cache
                           THEN {NoRequest} ELSE InspectResponses,
              feed \in OrchFeeds,
              raise_at \in {"never", "resolve", "score"} :
               LET r == inspect_by_symbol(address_cache, scan_result.base_asset, chain,
                                          scan_result.current_price, response, feed, now)
               IN  /\ onchain' = IF raise_at = "never" THEN r.signal ELSE NoSignal
                   /\ address_cache' = IF raise_at = "resolve" THEN address_cache
                                       ELSE r.resolved.cache
                   /\ pc' = InspectorErrorCaught(raise_at # "never")
    /\ UNCHANGED <<now, storeVars, callVars, scoreVars, resolve_call, scanVars, running, opportunities, idx,
                   analysis, alert_cooldown, alerts, cycle_log>>

\* The message is sent (delivery failures are swallowed by the reporter), the
\* record goes to the signal manager and the symbol is marked.
SendAlert ==
    /\ pc = "send"
    /\ LET scan_result == opportunities[idx]
       IN  /\ alerts' = Append(alerts, AlertRecord(scan_result, analysis, now))
           /\ alert_cooldown' = mark_alerted(alert_cooldown, scan_result.symbol, now)
           /\ cycle_log' = Append(cycle_log,
                   [symbol |-> scan_result.symbol, fate |-> "alerted"])
    /\ pc' = "pause"
    /\ UNCHANGED <<now, storeVars, callVars, scoreVars, resolveVars, scanVars, running, opportunities, idx,
                   analysis, onchain>>

\* `await asyncio.sleep(1)` returns: the next iteration.
Pause ==
    /\ pc = "pause"
    /\ pc' = NextIteration(idx, opportunities)[1]
    /\ idx' = NextIteration(idx, opportunities)[2]
    /\ UNCHANGED <<now, storeVars, callVars, scoreVars, resolveVars, scanVars, running, opportunities,
                   analysis, onchain, alert_cooldown, alerts, cycle_log>>

\* run(): `if self._running: await asyncio.sleep(SCAN_INTERVAL_SECONDS)`, then
\* the next cycle.
Sleep ==
    /\ running /\ pc = "sleep"
    /\ pc' = "cycle"
    /\ opportunities' = << >>
    /\ cycle_log' = << >>
    /\ analysis' = NoAnalysis
    /\ onchain' = NoSignal
    /\ UNCHANGED <<now, storeVars, callVars, scoreVars, resolveVars, scanVars, running, idx, alert_cooldown, alerts>>

Next ==
    \/ Tick
    \/ RunScan
    \/ CooldownGate
    \/ MomentumGate
    \/ ProcessOpportunity
    \/ SendAlert
    \/ Pause
    \/ Sleep

Spec == Init /\ [][Next]_vars

(***************************************************************************)
(* SpecLoop: the main loop with a step of the cycle raising.  The gate,    *)
(* the code after the analysis, the alert step and the pause are inside    *)
(* the try block of run_scan_cycle; an exception there is logged and the   *)
(* cycle is over.  The sleep between cycles always returns.                *)
(***************************************************************************)
CycleError ==
    /\ pc \in {"gate", "analysis", "send", "pause"}
    /\ pc' = CycleErrorCaught(pc)
    /\ idx' = 0
    /\ cycle_log' = Append(cycle_log,
            [symbol |-> opportunities[idx].symbol, fate |-> "cycle_error"])
    /\ UNCHANGED <<now, storeVars, callVars, scoreVars, resolveVars, scanVars, running, opportunities,
                   analysis, onchain, alert_cooldown, alerts>>

NextLoop == Next \/ CycleError

SpecLoop == Init /\ [][NextLoop]_vars /\ WF_vars(Sleep)

(***************************************************************************)
(* SpecTop: the loop of one cycle over what a scan of six symbols          *)
(* returned, the later symbols having the higher spike ratios.             *)
(***************************************************************************)
TopSymbols ==
    <<Perpetual(ETH), Perpetual(FOO), Perpetual(BNB), Perpetual(<<"L", "I", "N", "K">>),
      Perpetual(<<"U", "N", "I">>), Perpetual(<<"B", "A", "R">>)>>

\* Spike ratios 10, 11, ... in the order of the symbols.
TopFeed == [i \in DOMAIN TopSymbols |-> MarketData(<<100, 900 + 100 * i>>, Ticker(100, -5))]

InitTop ==
    /\ now = 8600
    /\ ScoreIdle /\ signal = NoSignal
    /\ ResolveIdle /\ StoreIdle /\ CallIdle
    /\ ScanIdle
    /\ running = TRUE
    /\ pc = "gate"
    /\ \E n \in 1..Len(TopSymbols) :
        opportunities = scan(SubSeq(TopSymbols, 1, n), SubSeq(TopFeed, 1, n))
    /\ idx = 1
    /\ analysis = NoAnalysis
    /\ onchain = NoSignal
    /\ alert_cooldown = << >>
    /\ alerts = << >>
    /\ cycle_log = << >>

NextTop == CooldownGate \/ MomentumGate \/ ProcessOpportunity \/ SendAlert \/ Pause

SpecTop == InitTop /\ [][NextTop]_vars

(***************************************************************************)
(* SpecPairs: calls of fetch_usdt_futures_pairs on one scanner as the      *)
(* clock advances by half an hour or by a day.                             *)
(***************************************************************************)
MaxPairsClock == 90000

PairWaits == {1800, 86400}

\* load_markets raises, or returns the markets: a perpetual and a spot
\* market, or two perpetuals and one that is not active.
LoadAnswers ==
    { [kind |-> "error", markets |-> << >>],
      [kind |-> "markets",
       markets |-> <<Market(Perpetual(ETH), "USDT", TRUE, TRUE),
                     Market(ETH \o <<"/", "U", "S", "D", "T">>, "USDT", FALSE, TRUE)>>],
      [kind |-> "markets",
       markets |-> <<Market(Perpetual(BNB), "USDT", TRUE, TRUE),
                     Market(Perpetual(FOO), "USDT", TRUE, FALSE),
                     Market(Perpetual(ETH), "USDT", TRUE, TRUE)>>] }

InitPairs ==
    /\ now = 0
    /\ ScoreIdle /\ ResolveIdle /\ StoreIdle /\ CallIdle /\ ScanIdle /\ OrchIdle

\* pairs = await scanner.fetch_usdt_futures_pairs(force_refresh)
FetchPairs ==
    /\ \E force_refresh \in BOOLEAN, answer \in LoadAnswers :
        LET r == fetch_usdt_futures_pairs(pairs_cache, cache_time, now, force_refresh, answer)
        IN  /\ pairs_cache' = r.cache
            /\ cache_time' = r.cache_time
            /\ pairs_call' = [phase |-> "returned", force_refresh |-> force_refresh,
                              cache_before |-> pairs_cache,
                              elapsed |-> IF cache_time.set THEN now - cache_time.at ELSE -1,
                              answer |-> IF r.loads = 0 THEN [kind |-> "none"] ELSE answer,
                              result |-> r.result, loads |-> r.loads]
    /\ UNCHANGED <<now, signalVars, scoreVars, resolveVars, callVars, scanVars, orchVars>>

\* Time passes between two calls.
Elapse ==
    /\ \E d \in PairWaits :
        /\ now + d <= MaxPairsClock
        /\ now' = now + d
    /\ UNCHANGED <<storeVars, scoreVars, resolveVars, callVars, scanVars, orchVars>>

NextPairs == FetchPairs \/ Elapse

SpecPairs == InitPairs /\ [][NextPairs]_vars

(***************************************************************************)
(* SpecStore: one SignalManager, in JSON mode or in PostgreSQL mode, from  *)
(* its construction in an empty data directory, under add_signal,          *)
(* reload_from_disk and clear_all_signals as the clock advances.           *)
(***************************************************************************)
MaxSignals == 2
MaxAdds == 4
MaxStoreClock == 18002

StoreWaits == {9001}

StoreCoins == {ETH}

\* __init__: in JSON mode _load_signals finds no file and writes the empty
\* list; in PostgreSQL mode the file is not touched.
InitStore ==
    /\ now = 0
    /\ ScoreIdle /\ ResolveIdle /\ PairsIdle /\ CallIdle /\ ScanIdle /\ OrchIdle
    /\ use_postgres \in BOOLEAN
    /\ signals = << >>
    /\ disk = IF use_postgres THEN NoFile ELSE File(<< >>)
    /\ db_rows = << >>
    /\ add_call = [phase |-> "none", tag |-> 0]

\* self.signal_manager.add_signal({...})
AddSignal ==
    /\ add_call.tag < MaxAdds
    /\ \E coin \in StoreCoins, stamped \in BOOLEAN, written \in BOOLEAN,
          insert \in {"inserted", "rejected", "raised"}, cleanup \in {"done", "raised"} :
        LET sig == [coin |-> coin, tag |-> add_call.tag + 1, stamped |-> stamped,
                    timestamp |-> IF stamped THEN now ELSE 0]
            r == add_signal(use_postgres, db_rows, signals, sig, now, MaxSignals,
                            insert, cleanup)
        IN  /\ use_postgres \/ (insert = "raised" /\ cleanup = "done")
            /\ db_rows' = r.rows
            /\ signals' = r.list
            /\ disk' = IF r.json THEN save_signals(r.list, disk, written) ELSE disk
            /\ add_call' = [phase |-> "returned", tag |-> sig.tag,
                            insert |-> IF use_postgres THEN insert ELSE "none",
                            in_db |-> \E k \in DOMAIN r.rows : r.rows[k].tag = sig.tag,
                            in_list |-> \E k \in DOMAIN r.list : r.list[k].tag = sig.tag]
    /\ UNCHANGED <<now, pairsVars, use_postgres, scoreVars, resolveVars, callVars, scanVars,
                   orchVars>>

\* reload_from_disk: _load_signals, then _cleanup_old_signals(hours=5), which
\* saves when it removed something.
ReloadFromDisk ==
    /\ \E written \in BOOLEAN :
        LET loaded == IF disk.exists THEN disk.content ELSE << >>
            created == IF disk.exists THEN disk ELSE save_signals(<< >>, disk, written)
            kept == cleanup_old_signals(loaded, now)
        IN  /\ signals' = kept
            /\ disk' = IF Len(kept) < Len(loaded) THEN save_signals(kept, created, written)
                       ELSE created
    /\ UNCHANGED <<now, pairsVars, use_postgres, db_rows, add_call, scoreVars, resolveVars,
                   callVars, scanVars, orchVars>>

\* clear_all_signals
ClearAllSignals ==
    /\ \E written \in BOOLEAN :
        /\ signals' = << >>
        /\ disk' = save_signals(<< >>, disk, written)
    /\ UNCHANGED <<now, pairsVars, use_postgres, db_rows, add_call, scoreVars, resolveVars,
                   callVars, scanVars, orchVars>>

\* Time passes between two calls.
Age ==
    /\ \E d \in StoreWaits :
        /\ now + d <= MaxStoreClock
        /\ now' = now + d
    /\ UNCHANGED <<storeVars, scoreVars, resolveVars, callVars, scanVars, orchVars>>

NextStore == AddSignal \/ ReloadFromDisk \/ ClearAllSignals \/ Age

SpecStore == InitStore /\ [][NextStore]_vars

(***************************************************************************)
(* SpecStop: the loop with the external stop signal.  handle_shutdown      *)
(* raises KeyboardInterrupt in the main thread, wherever the event loop    *)
(* is: inside the task (it unwinds run_scan_cycle and run, whose handlers  *)
(* catch Exception only, up to main(), which calls shutdown) or inside the *)
(* loop's own wait (asyncio.run then cancels the task at its current       *)
(* await; run() catches CancelledError, leaves the loop and calls          *)
(* shutdown).  Either way the cycle is abandoned where it is, its locals   *)
(* are gone, and shutdown clears _running.                                 *)
(***************************************************************************)
StopSignal ==
    /\ running
    /\ running' = FALSE
    /\ pc' = "stopped"
    /\ opportunities' = << >>
    /\ idx' = 0
    /\ analysis' = NoAnalysis
    /\ onchain' = NoSignal
    /\ cycle_log' = << >>
    /\ UNCHANGED <<now, storeVars, callVars, scoreVars, resolveVars, scanVars, alert_cooldown, alerts>>

NextStop == NextLoop \/ StopSignal

SpecStop == Init /\ [][NextStop]_vars

(***************************************************************************)
(* SpecLookup: one resolve_token_address call, for a symbol of the static  *)
(* table or a symbol the pair search must find, against every answer of    *)
(* the pair-search request.                                                *)
(***************************************************************************)
MaxLookupPairs == 3

\* The size prefixes of the exchange's scaled contracts (1000PEPE, 1000000MOG).
THOUSAND == <<"1", "0", "0", "0">>
MILLION == <<"1", "0", "0", "0", "0", "0", "0">>

LookupSymbols == {ETH, FOO, THOUSAND \o ETH, MILLION \o ETH}
LookupChains == {ETHEREUM, BSC, ETH_ALIAS}

Pair(chainId, liquidity, address) ==
    [chainId |-> chainId, liquidity |-> liquidity, address |-> address]

\* Pairs on two chains, with liquidity of 0, at the floor and over it.
LookupPairPool ==
    { Pair(ETHEREUM, 0, "0xE0"), Pair(ETHEREUM, 50000, "0xE50"),
      Pair(ETHEREUM, 70000, "0xE70"), Pair(ETHEREUM, 90000, "0xE90"),
      Pair(BSC, 0, "0xB0"), Pair(BSC, 60000, "0xB60"), Pair(BSC, 95000, "0xB95") }

\* A timeout, a connection error, HTTP 429, HTTP 500, or HTTP 200 with pairs.
LookupResponses ==
    { [kind |-> "timeout"], [kind |-> "error"],
      [kind |-> "http", status |-> 429, pairs |-> << >>],
      [kind |-> "http", status |-> 500, pairs |-> << >>] }
    \cup { [kind |-> "http", status |-> 200, pairs |-> ps] :
             ps \in SeqsUpTo(LookupPairPool, MaxLookupPairs) }

InitLookup ==
    /\ now = 0
    /\ ScoreIdle /\ ResolveIdle /\ StoreIdle /\ ScanIdle /\ OrchIdle
    /\ resolvers = << >>
    /\ known_wallets = NoWallets
    /\ fetch_call = NotCalled
    /\ classify_call = NotCalled
    /\ \E symbol \in LookupSymbols, chain \in LookupChains, response \in LookupResponses :
        lookup_call = [phase |-> "called", symbol |-> symbol, chain |-> chain,
                       response |-> response]

\* result = await resolve_token_address(session, symbol, chain)
Lookup ==
    /\ lookup_call.phase = "called"
    /\ LET r == resolve_token_address(lookup_call.symbol, lookup_call.chain,
                                      lookup_call.response)
       IN  lookup_call' = [phase |-> "returned", symbol |-> lookup_call.symbol,
                           chain |-> lookup_call.chain, response |-> lookup_call.response,
                           result |-> r.result, outbound |-> r.outbound,
                           raised |-> r.raised]
    /\ UNCHANGED <<now, storeVars, scoreVars, resolveVars, resolvers, known_wallets, fetch_call,
                   classify_call, scanVars, orchVars>>

NextLookup == Lookup

SpecLookup == InitLookup /\ [][NextLookup]_vars

(***************************************************************************)
(* SpecOutbound: one call of resolve_token_address, of                     *)
(* fetch_recent_transfers or of _classify_wallet, against every answer of  *)
(* its request and every registry of known wallets.                        *)
(***************************************************************************)
MaxRawRecords == 2

ADDR_A == <<"0", "x", "A", "1">>
ADDR_A_LOWER == <<"0", "x", "a", "1">>
ADDR_B == <<"0", "x", "B", "2">>
ADDR_B_LOWER == <<"0", "x", "b", "2">>
ADDR_C == <<"0", "x", "c", "3">>
ADDR_D == <<"0", "x", "d", "4">>

Wallet(address, label) == [address |-> address, label |-> label]

\* known_wallets.json as loaded: no file (the default), a file where an
\* address is listed in two registries under different spellings, a file
\* where one registry lists both spellings of an address.
WalletBooks ==
    { NoWallets,
      [whales |-> <<Wallet(ADDR_A, "Whale A")>>,
       exchanges |-> <<Wallet(ADDR_A_LOWER, "Exchange a"), Wallet(ADDR_B, "Binance")>>,
       market_makers |-> <<Wallet(ADDR_B_LOWER, "Maker b"), Wallet(ADDR_C, "Wintermute")>>],
      [whales |-> <<Wallet(ADDR_A_LOWER, "first"), Wallet(ADDR_A, "second")>>,
       exchanges |-> << >>,
       market_makers |-> <<Wallet(ADDR_A, "Maker A"), Wallet(ADDR_D, "Maker d")>>] }

ClassifiedAddresses == {ADDR_A, ADDR_A_LOWER, ADDR_B, ADDR_B_LOWER, ADDR_C, ADDR_D, << >>}

RawRecord(hash, from, to, value, decimals, timestamp) ==
    [hash |-> hash, from |-> from, to |-> to, value |-> value,
     decimals |-> decimals, timestamp |-> timestamp]

\* Raw records: two complete ones, and one for each field missing or
\* malformed.
RawPool ==
    { RawRecord("h1", ADDR_A, ADDR_B_LOWER, Numeric(200000), Numeric(0), Numeric(1000)),
      RawRecord("h2", ADDR_D, ADDR_C, Numeric(700000), Numeric(6), Numeric(5000)),
      RawRecord("h3", ADDR_A, ADDR_B, Malformed, Numeric(0), Numeric(1000)),
      RawRecord("h4", ADDR_A, ADDR_B, Missing, Numeric(0), Numeric(1000)),
      RawRecord("h5", ADDR_A, ADDR_B, Numeric(200000), Malformed, Numeric(1000)),
      RawRecord("h6", ADDR_A, ADDR_B, Numeric(200000), Missing, Numeric(1000)),
      RawRecord("h7", ADDR_A, ADDR_B, Numeric(200000), Numeric(0), Malformed),
      RawRecord("h8", ADDR_A, ADDR_B, Numeric(200000), Numeric(0), Missing) }

TRON == <<"t", "r", "o", "n">>
MIXED_CASE_BSC == <<"B", "s", "c">>
FetchChains == {ETHEREUM, MIXED_CASE_BSC, SOLANA, TRON}

\* A timeout, a connection error, HTTP 429, HTTP 500, HTTP 200 with a body
\* flagged as failed, or HTTP 200 with records.
FetchAnswers ==
    { [kind |-> "timeout", status |-> 0, body_ok |-> FALSE, records |-> << >>],
      [kind |-> "error", status |-> 0, body_ok |-> FALSE, records |-> << >>],
      [kind |-> "http", status |-> 429, body_ok |-> FALSE, records |-> << >>],
      [kind |-> "http", status |-> 500, body_ok |-> FALSE, records |-> << >>],
      [kind |-> "http", status |-> 200, body_ok |-> FALSE, records |-> << >>] }
    \cup { [kind |-> "http", status |-> 200, body_ok |-> TRUE, records |-> rs] :
             rs \in SeqsUpTo(RawPool, MaxRawRecords) }

InitFetch ==
    /\ now = 0
    /\ ScoreIdle /\ ResolveIdle /\ StoreIdle /\ ScanIdle /\ OrchIdle
    /\ lookup_call = NotCalled
    /\ resolvers = << >>
    /\ classify_call = NotCalled
    /\ known_wallets \in WalletBooks
    /\ \E chain \in FetchChains, answer \in FetchAnswers :
        fetch_call = [phase |-> "called", chain |-> chain, answer |-> answer,
                      wallets |-> known_wallets]

InitClassify ==
    /\ now = 0
    /\ ScoreIdle /\ ResolveIdle /\ StoreIdle /\ ScanIdle /\ OrchIdle
    /\ lookup_call = NotCalled
    /\ resolvers = << >>
    /\ fetch_call = NotCalled
    /\ known_wallets \in WalletBooks
    /\ \E address \in ClassifiedAddresses :
        classify_call = [phase |-> "called", address |-> address,
                         wallets |-> known_wallets]

InitOutbound == InitLookup \/ InitFetch \/ InitClassify

\* transfers = await self.fetch_recent_transfers(token_address, chain)
Fetch ==
    /\ fetch_call.phase = "called"
    /\ LET r == fetch_transfers(known_wallets, fetch_call.chain, fetch_call.answer)
       IN  fetch_call' = [fetch_call EXCEPT !.phase = "returned"] @@
                         [transfers |-> r.transfers, outbound |-> r.outbound,
                          raised |-> r.raised]
    /\ UNCHANGED <<now, storeVars, scoreVars, resolveVars, lookup_call, resolvers, known_wallets,
                   classify_call, scanVars, orchVars>>

\* self._classify_wallet(address)
Classify ==
    /\ classify_call.phase = "called"
    /\ LET r == classify_wallet(known_wallets, classify_call.address)
       IN  classify_call' = [classify_call EXCEPT !.phase = "returned"] @@
                            [wallet_type |-> r[1], label |-> r[2]]
    /\ UNCHANGED <<now, storeVars, scoreVars, resolveVars, lookup_call, resolvers, known_wallets,
                   fetch_call, scanVars, orchVars>>

NextOutbound == Lookup \/ Fetch \/ Classify

SpecOutbound == InitOutbound /\ [][NextOutbound]_vars

(***************************************************************************)
(* SpecRace: several resolve_address calls for one (symbol, chain) key on  *)
(* one inspector, as tasks of one event loop.  A call runs without         *)
(* interruption from its entry to the pair-search request (the cache       *)
(* check, _get_session and a static-table hit do not suspend), and from    *)
(* the answer to its return (the cache write included).                    *)
(***************************************************************************)
MaxResolvers == 2

RaceSymbols == {ETH, FOO}
RaceChains == {ETHEREUM, BSC}

\* A timeout; a pair over the floor on either chain; a pair at the floor.
RaceResponses ==
    { [kind |-> "timeout"],
      [kind |-> "http", status |-> 200, pairs |-> <<Pair(ETHEREUM, 70000, "0xE70")>>],
      [kind |-> "http", status |-> 200, pairs |-> <<Pair(BSC, 95000, "0xB95")>>],
      [kind |-> "http", status |-> 200, pairs |-> <<Pair(ETHEREUM, 50000, "0xE50")>>] }

NoAnswer == [kind |-> "none"]

Resolver(symbol, chain, phase, response, result, hit) ==
    [symbol |-> symbol, chain |-> chain, phase |-> phase, response |-> response,
     result |-> result, hit |-> hit]

InitRace ==
    /\ now = 0
    /\ ScoreIdle /\ ResolveIdle /\ StoreIdle /\ ScanIdle /\ OrchIdle
    /\ lookup_call = NotCalled
    /\ known_wallets = NoWallets
    /\ fetch_call = NotCalled
    /\ classify_call = NotCalled
    /\ \E n \in 1..MaxResolvers, symbol \in RaceSymbols, chain \in RaceChains :
        resolvers = [c \in 1..n |->
                        Resolver(symbol, chain, "called", NoAnswer, <<None, << >> >>, FALSE)]

\* Whether resolve_token_address sends the pair-search request for the symbol.
Requests(symbol, chain) ==
    resolve_token_address(symbol, chain, [kind |-> "timeout"]).outbound > 0

\* resolve_address from its entry to its first suspension or its return.
Enter(c) ==
    /\ resolvers[c].phase = "called"
    /\ LET symbol == resolvers[c].symbol
           chain == resolvers[c].chain
           key == cache_key(symbol, chain)
       IN  IF key \notin DOMAIN address_cache /\ Requests(symbol, chain)
           THEN /\ resolvers' = [resolvers EXCEPT ![c].phase = "awaiting"]
                /\ UNCHANGED resolveVars
           ELSE LET r == resolve_address(address_cache, symbol, chain, NoAnswer)
                IN  /\ resolvers' = [resolvers EXCEPT ![c].phase = "returned",
                                                     ![c].result = r.result,
                                                     ![c].hit = r.hit]
                    /\ address_cache' = r.cache
                    /\ resolve_call' = ResolveCall(symbol, chain, r)
    /\ UNCHANGED <<now, storeVars, scoreVars, lookup_call, known_wallets, fetch_call, classify_call,
                   scanVars, orchVars>>

\* The pair-search request is answered: the rest of resolve_token_address,
\* `self._address_cache[cache_key] = result`, `return result`.
Answer(c) ==
    /\ resolvers[c].phase = "awaiting"
    /\ \E response \in RaceResponses :
        LET symbol == resolvers[c].symbol
            chain == resolvers[c].chain
            r == resolve_token_address(symbol, chain, response)
            cache == CacheStore(address_cache, cache_key(symbol, chain), r.result)
        IN  /\ resolvers' = [resolvers EXCEPT ![c].phase = "returned",
                                             ![c].response = response,
                                             ![c].result = r.result]
            /\ address_cache' = cache
            /\ resolve_call' = ResolveCall(symbol, chain,
                                   [result |-> r.result, outbound |-> r.outbound,
                                    cache |-> cache, hit |-> FALSE])
    /\ UNCHANGED <<now, storeVars, scoreVars, lookup_call, known_wallets, fetch_call, classify_call,
                   scanVars, orchVars>>

EnterCall == \E c \in DOMAIN resolvers : Enter(c)
AnswerCall == \E c \in DOMAIN resolvers : Answer(c)

NextRace == EnterCall \/ AnswerCall

SpecRace == InitRace /\ [][NextRace]_vars

(***************************************************************************)
(* Properties of the inspector.                                            *)
(***************************************************************************)
\* A scoring call has returned: `signal` is what it returned for scored_input.
Scored == scored_price >= 0

\* The list of the last scoring call as the loop left it (value_usd written).
ScoredPriced == Priced(scored_input, scored_price)

\* C2: every Signal returned by analyze_transfers and by inspect_by_symbol has
\* a confidence score between 0 and 95 inclusive.
C2_ConfidenceInRange ==
    Scored => signal.confidence_score \in 0..95

\* C2 witness: a signal was returned whose confidence had to be cut to 95.
C2_Witness ==
    /\ Scored
    /\ scored_input # << >>
    /\ RawConfidence(ScoredPriced, now) > 95
    /\ signal.confidence_score = 95

\* The transfers of the last call are exactly 4 whale-to-exchange transfers and
\* no exchange-to-whale transfer, each worth less than the large-transfer
\* threshold, with fewer than 3 market-maker transfers.
C7_Case ==
    /\ Scored
    /\ Cardinality(WhaleToExchangeAt(scored_input)) = 4
    /\ ExchangeToWhaleAt(scored_input) = {}
    /\ \A i \in DOMAIN ScoredPriced : Amount(ScoredPriced[i]) < LARGE_TRANSFER_USD
    /\ Cardinality(MarketMakerAt(scored_input)) < 3

\* C7 as claimed: in that case the confidence is exactly 90 and the category
\* bearish, whatever the timestamps.
C7_Original ==
    C7_Case => signal.confidence_score = 90 /\ signal.signal_type = "SHORT"

\* C7 as amended: in that case the category is bearish, and the confidence is
\* exactly 90 when no whale transfer is within the last hour and the summed
\* whale-to-exchange value does not exceed the large-transfer threshold, and 95
\* otherwise.
C7_Amended ==
    C7_Case =>
        /\ signal.signal_type = "SHORT"
        /\ signal.confidence_score =
              IF /\ \A i \in DOMAIN scored_input :
                        IsWhaleInvolved(scored_input[i]) =>
                            scored_input[i].timestamp <= now - 3600
                 /\ SeqSum([i \in DOMAIN ScoredPriced |->
                              IF IsWhaleToExchange(ScoredPriced[i])
                              THEN Amount(ScoredPriced[i]) ELSE 0]) <= LARGE_TRANSFER_USD
              THEN 90 ELSE 95

\* C7 witness: the case with confidence 90, scored at a positive price.
C7_Witness ==
    C7_Case /\ scored_price > 0 /\ signal.confidence_score = 90

\* C8: with at least 3 market-maker transfers the category is
\* volatility-expected whatever the whale counts, and the confidence is the
\* clamped confidence, unchanged by the classification.
C8_MarketMakerVolatility ==
    (Scored /\ Cardinality(MarketMakerAt(scored_input)) >= 3) =>
        /\ signal.signal_type = "VOLATILITY"
        /\ signal.confidence_score = Min(RawConfidence(ScoredPriced, now), 95)

\* C8 witness: 3 market-maker transfers beside a whale deposit.
C8_Witness ==
    /\ Scored
    /\ Cardinality(MarketMakerAt(scored_input)) = 3
    /\ WhaleToExchangeAt(scored_input) # {}
    /\ signal.signal_type = "VOLATILITY"

\* C9: given zero transfers, analyze_transfers returns category neutral,
\* confidence 0, exactly one evidence entry and analyzed-transfer count 0, for
\* every reference price.
C9_EmptyInput ==
    (Scored /\ scored_input = << >>) =>
        /\ signal.signal_type = "NEUTRAL"
        /\ signal.confidence_score = 0
        /\ Len(signal.evidence) = 1
        /\ signal.analyzed_transfers = 0

\* C9 witness: an empty list was scored at a positive reference price.
C9_Witness ==
    /\ scored_price = 2
    /\ scored_input = << >>
    /\ signal.signal_type = "NEUTRAL"

TableSymbols == {TOKEN_ADDRESSES[i].symbol : i \in DOMAIN TOKEN_ADDRESSES}

\* C3: for a symbol absent from the static table, a resolve_address call whose
\* key is not cached makes exactly one outbound pair-search call and caches its
\* result under that key; a call whose key is cached makes no outbound call,
\* returns the cached result (absence included) and leaves the cache alone.
C3_CachedOnce ==
    [][resolve_call' # resolve_call =>
        LET key == resolve_call'.symbol \o <<"_">> \o resolve_call'.chain
        IN  IF key \in DOMAIN address_cache
            THEN /\ resolve_call'.outbound = 0
                 /\ resolve_call'.result = address_cache[key]
                 /\ address_cache' = address_cache
            ELSE /\ resolve_call'.symbol \notin TableSymbols => resolve_call'.outbound = 1
                 /\ key \in DOMAIN address_cache'
                 /\ address_cache'[key] = resolve_call'.result
                 /\ \A k \in DOMAIN address_cache :
                        k \in DOMAIN address_cache' /\ address_cache'[k] = address_cache[k]]_vars

\* C3 witness: a repeated resolve for an absent symbol was answered from the
\* cache with absence, without an outbound call.
C3_Witness ==
    /\ resolve_call.symbol = FOO
    /\ resolve_call.hit
    /\ resolve_call.outbound = 0
    /\ resolve_call.result[1] = None

\* C4: for a symbol present in the static table, resolve makes no outbound call
\* and returns the preferred chain's address tagged with the preferred chain if
\* the entry has one, else the entry's first chain-address pair tagged with
\* that pair's own chain.
C4_TableResolve ==
    resolve_call.symbol \in TableSymbols =>
        LET addresses == TableEntry(resolve_call.symbol).addresses
            preferred == {i \in DOMAIN addresses : addresses[i].chain = resolve_call.chain}
        IN  /\ resolve_call.outbound = 0
            /\ preferred # {} =>
                  /\ resolve_call.result[2] = resolve_call.chain
                  /\ \E i \in preferred : resolve_call.result[1] = addresses[i].address
            /\ preferred = {} =>
                  resolve_call.result = <<addresses[1].address, addresses[1].chain>>

\* C4 witness: BNB has no ethereum entry, so its bsc pair was returned.
C4_Witness ==
    /\ resolve_call.symbol = BNB
    /\ resolve_call.chain = ETHEREUM
    /\ resolve_call.result = <<"0xbb4CdB9CBd36B01bD1cBaEBF2De08d9173bc095c", BSC>>

(***************************************************************************)
(* Properties of the market scanner.                                       *)
(***************************************************************************)
\* Where a symbol stands in the list scan() was given.
Position(symbol) == CHOOSE i \in DOMAIN scan_symbols : scan_symbols[i] = symbol

\* The conditions of C5 read off the feed's answer for one symbol.
Qualifies(data) ==
    /\ ~data.raises
    /\ Len(data.volumes) >= 2
    /\ data.ticker.available
    /\ data.volumes[Len(data.volumes)] * data.ticker.last >= MIN_VOLUME_USD_5M
    /\ \/ LET previous == SubSeq(data.volumes, 1, Len(data.volumes) - 1)
          IN  /\ SeqSum(previous) > 0
              /\ data.volumes[Len(data.volumes)] * Len(previous)
                    >= VOLUME_SPIKE_MULTIPLIER * SeqSum(previous)
       \/ Abs(data.ticker.percentage) >= PRICE_CHANGE_THRESHOLD

\* C5: a symbol appears in the scan output only if it has at least two
\* volume-history points and a ticker, its latest-period quote volume is at
\* least the volume floor, and its spike ratio is at least the spike threshold
\* or the absolute value of its price change is at least the price threshold.
C5_OutputQualifies ==
    scan_pc = "returned" =>
        \A k \in DOMAIN scan_output :
            \E i \in DOMAIN scan_symbols :
                /\ scan_symbols[i] = scan_output[k].symbol
                /\ Qualifies(market[i])

\* C5 witness: a scan returned an opportunity and left out a symbol whose spike
\* ratio and price change are over their thresholds but whose quote volume is
\* under the floor.
C5_Witness ==
    /\ scan_pc = "returned"
    /\ scan_output # << >>
    /\ \E i \in DOMAIN scan_symbols :
        /\ Len(market[i].volumes) >= 2
        /\ market[i].ticker.available
        /\ is_volume_spike(volume_ratio(market[i].volumes))
        /\ market[i].volumes[Len(market[i].volumes)] * market[i].ticker.last < MIN_VOLUME_USD_5M
        /\ \A k \in DOMAIN scan_output : scan_output[k].symbol # scan_symbols[i]

\* C6: the scan output is sorted by spike ratio in descending order, and
\* results of equal spike ratio keep the order of their symbols in the input,
\* whatever order the evaluations finished in.
C6_SortedStable ==
    scan_pc = "returned" =>
        \A j, k \in DOMAIN scan_output :
            j < k =>
                /\ FracGeq(scan_output[j].volume_spike_ratio, scan_output[k].volume_spike_ratio)
                /\ FracEq(scan_output[j].volume_spike_ratio, scan_output[k].volume_spike_ratio)
                    => Position(scan_output[j].symbol) < Position(scan_output[k].symbol)

\* C6 witness: two results of equal spike ratio were returned, the evaluation
\* of the later symbol having finished first.
C6_Witness ==
    /\ scan_pc = "returned"
    /\ \E j, k \in DOMAIN scan_output :
        /\ j < k
        /\ FracEq(scan_output[j].volume_spike_ratio, scan_output[k].volume_spike_ratio)
        /\ \E a, b \in DOMAIN completion :
            /\ a < b
            /\ completion[a] = Position(scan_output[k].symbol)
            /\ completion[b] = Position(scan_output[j].symbol)

(***************************************************************************)
(* Properties of the orchestrator.                                         *)
(***************************************************************************)
\* The alerts emitted so far for a symbol.
AlertsFor(symbol) == {i \in DOMAIN alerts : alerts[i].coin = SplitHead(symbol)}

\* More than 300 seconds have passed since every alert for the symbol.
WindowElapsed(symbol) == \A i \in AlertsFor(symbol) : now - alerts[i].timestamp > 300

\* A step of the cycle itself (the clock is the only other thing that moves).
CycleStep == now' = now

\* C1: an opportunity reaching the cooldown gate within 300 seconds of an
\* alert for its symbol is skipped without an alert, one reaching it after the
\* window has elapsed goes on to be alerted, and so two alerts for one symbol
\* are never less than 300 seconds apart.
C1_Cooldown ==
    [][ /\ \A i, j \in DOMAIN alerts' :
            (i < j /\ alerts'[i].coin = alerts'[j].coin)
                => alerts'[j].timestamp - alerts'[i].timestamp >= 300
        /\ (pc = "gate" /\ CycleStep) =>
            IF WindowElapsed(opportunities[idx].symbol)
            THEN pc' = "analysis" /\ idx' = idx /\ alerts' = alerts
            ELSE /\ alerts' = alerts
                 /\ alert_cooldown' = alert_cooldown
                 /\ <<pc', idx'>> \in {<<"gate", idx + 1>>, <<"sleep", 0>>}
      ]_vars

\* C1 witness: a symbol alerted 301 seconds after its previous alert, and in
\* that cycle another opportunity was skipped inside its window.
C1_Witness ==
    /\ \E i, j \in DOMAIN alerts :
        /\ i < j
        /\ alerts[i].coin = alerts[j].coin
        /\ alerts[j].timestamp - alerts[i].timestamp = 301
    /\ \E k \in DOMAIN cycle_log :
        /\ cycle_log[k].fate = "cooldown"
        /\ AlertsFor(cycle_log[k].symbol) # {}
        /\ ~WindowElapsed(cycle_log[k].symbol)

\* C10: an opportunity past the cooldown gate and the momentum gate goes from
\* corroboration to the alert whatever corroboration gave (a signal of any
\* category, or an error); the alert step emits exactly one record for it and
\* sets the symbol's cooldown timestamp to the current time; nothing else
\* emits a record; and the cycle then goes on with the next opportunity.
C10_AlertWhateverCorroboration ==
    [][ /\ (pc = "inspect" /\ CycleStep) =>
            /\ pc' = "send"
            /\ idx' = idx /\ opportunities' = opportunities
        /\ (pc = "send" /\ CycleStep) =>
            /\ Len(alerts') = Len(alerts) + 1
            /\ SubSeq(alerts', 1, Len(alerts)) = alerts
            /\ alerts'[Len(alerts')].coin = opportunities[idx].base_asset
            /\ alerts'[Len(alerts')].timestamp = now
            /\ opportunities[idx].symbol \in DOMAIN alert_cooldown'
            /\ alert_cooldown'[opportunities[idx].symbol] = now
            /\ pc' = "pause"
        /\ alerts' # alerts => pc = "send"
        /\ (pc = "pause" /\ CycleStep) =>
            IF idx < Len(opportunities)
            THEN pc' = "gate" /\ idx' = idx + 1
            ELSE pc' = "sleep"
      ]_vars

\* C10 witness: corroboration raised for the first of two opportunities, and
\* the alert for it was emitted and its cooldown set.
C10_Witness ==
    /\ pc = "pause"
    /\ onchain = NoSignal
    /\ idx = 1 /\ Len(opportunities) = 2
    /\ alerts # << >>
    /\ alerts[Len(alerts)].coin = opportunities[idx].base_asset
    /\ alert_cooldown[opportunities[idx].symbol] = alerts[Len(alerts)].timestamp

\* The cycle has just ended on an exception.
CycleFailed ==
    /\ cycle_log # << >>
    /\ cycle_log[Len(cycle_log)].fate = "cycle_error"

\* C11: a step of a cycle that raises (the scan or a later one) ends the cycle
\* without ending the loop: the bot is left running and waiting for its
\* interval, and the next cycle is eventually started.
C11_CycleErrorContained ==
    /\ [][ (~CycleFailed /\ CycleFailed') => (pc' = "sleep" /\ running' /\ alerts' = alerts) ]_vars
    /\ (CycleFailed ~> (running => pc = "cycle"))

\* C11 witness: a step after the scan raised, after an opportunity of the same
\* cycle had been alerted, and the loop is waiting for the next cycle.
C11_Witness ==
    /\ CycleFailed
    /\ Len(cycle_log) >= 2
    /\ cycle_log[1].fate = "alerted"
    /\ pc = "sleep" /\ running

(***************************************************************************)
(* Properties of resolve_token_address and fetch_recent_transfers.         *)
(***************************************************************************)
\* A resolve_token_address call for a symbol outside the static table has
\* returned.
LookupMissed ==
    /\ lookup_call.phase = "returned"
    /\ ~InTable(symbol_clean(lookup_call.symbol))

\* The pairs the pair search returned (none unless it answered 200).
ReturnedPairs ==
    IF lookup_call.response.kind = "http" /\ lookup_call.response.status = 200
    THEN lookup_call.response.pairs ELSE << >>

\* The returned pairs on the preferred chain of the call.
PreferredPairs ==
    {i \in DOMAIN ReturnedPairs :
        Lower(ReturnedPairs[i].chainId) = target_chain(lookup_call.chain)}

\* The pair whose address the call returned.
ChosenPairs ==
    {i \in DOMAIN ReturnedPairs : ReturnedPairs[i].address = lookup_call.result[1]}

\* C16 as claimed: on a table miss with at least one returned pair on the
\* preferred chain, the pair selected is a preferred-chain pair of the highest
\* liquidity among them, so an address that is returned is that pair's.
C16_PreferredChainFirst ==
    (LookupMissed /\ PreferredPairs # {} /\ lookup_call.result[1] # None) =>
        \E i \in ChosenPairs :
            /\ i \in PreferredPairs
            /\ \A j \in PreferredPairs : ReturnedPairs[i].liquidity >= ReturnedPairs[j].liquidity

\* The part of C16 the code keeps: with a preferred-chain pair of positive
\* liquidity the selection is as claimed, and with no preferred-chain pair the
\* highest-liquidity pair overall is selected.
C16_WithPositiveLiquidity ==
    (LookupMissed /\ lookup_call.result[1] # None) =>
        \E i \in ChosenPairs :
            IF \E j \in PreferredPairs : ReturnedPairs[j].liquidity > 0
            THEN /\ i \in PreferredPairs
                 /\ \A j \in PreferredPairs : ReturnedPairs[i].liquidity >= ReturnedPairs[j].liquidity
            ELSE \A j \in DOMAIN ReturnedPairs : ReturnedPairs[i].liquidity >= ReturnedPairs[j].liquidity

\* C17: on a table miss an address is returned only from a pair whose
\* liquidity is strictly over 50000; when the selected pair is at or under the
\* floor, or there are no pairs, the call returns absence with the requested
\* chain.
C17_LiquidityFloor ==
    LookupMissed =>
        /\ lookup_call.result[1] # None =>
            \E i \in ChosenPairs : ReturnedPairs[i].liquidity > 50000
        /\ (\/ ReturnedPairs = << >>
            \/ SelectPair(ReturnedPairs, lookup_call.chain).max_liquidity <= 50000)
                => lookup_call.result = <<None, lookup_call.chain>>

\* C17 witness: the selected pair sits exactly on the floor while a pair of
\* another chain is over it, and absence was returned.
C17_Witness ==
    /\ LookupMissed
    /\ ReturnedPairs # << >>
    /\ SelectPair(ReturnedPairs, lookup_call.chain).max_liquidity = 50000
    /\ \E j \in DOMAIN ReturnedPairs : ReturnedPairs[j].liquidity > 50000
    /\ lookup_call.result = <<None, lookup_call.chain>>


(***************************************************************************)
(* Properties of the outbound requests.                                    *)
(***************************************************************************)
\* The request got no usable answer: a timeout, a connection error, or an
\* HTTP status other than 200 (429 among them).
TransientFailure(answer) == answer.kind # "http" \/ answer.status # 200

LookupFailed ==
    /\ LookupMissed
    /\ TransientFailure(lookup_call.response)

FetchSupported == Lower(fetch_call.chain) \in EVM_CHAINS \cup {SOLANA}

FetchFailed ==
    /\ fetch_call.phase = "returned"
    /\ FetchSupported
    /\ TransientFailure(fetch_call.answer)

\* C12: a transient failure of the pair-search request or of the transfer
\* request (timeout, non-200 status, 429) is turned into a result: the
\* lookup returns no address with the requested chain, the fetch returns the
\* empty sequence; neither raises, and neither made a second request.
C12_FailureBecomesAbsence ==
    /\ LookupFailed =>
          /\ ~lookup_call.raised
          /\ lookup_call.result = <<None, lookup_call.chain>>
          /\ lookup_call.outbound = 1
    /\ FetchFailed =>
          /\ ~fetch_call.raised
          /\ fetch_call.transfers = << >>
          /\ fetch_call.outbound = 1

C12_Witness ==
    /\ FetchFailed
    /\ Lower(fetch_call.chain) = SOLANA
    /\ fetch_call.answer.kind = "http"
    /\ fetch_call.answer.status = 429

\* The registries of a book in priority order.
RegistryOrder(wallets) ==
    << [role |-> "whale", entries |-> wallets.whales],
       [role |-> "exchange", entries |-> wallets.exchanges],
       [role |-> "market_maker", entries |-> wallets.market_makers] >>

SameAddress(a, b) == Lower(a) = Lower(b)

Lists(entries, address) == \E i \in DOMAIN entries : SameAddress(entries[i].address, address)

Classified == classify_call.phase = "returned"

\* C18: the classification is the role and a label of the first registry,
\* in the order whale, exchange, market maker, that lists the address
\* under any letter case; an address in no registry is unknown with the
\* label "Unknown"; the registries are left as they were.
C18_ClassifyByPriority ==
    Classified =>
        LET order == RegistryOrder(classify_call.wallets)
            listing == {k \in 1..3 : Lists(order[k].entries, classify_call.address)}
        IN  /\ known_wallets = classify_call.wallets
            /\ listing = {} =>
                  /\ classify_call.wallet_type = "unknown"
                  /\ classify_call.label = "Unknown"
            /\ \A k \in listing :
                  (\A j \in listing : k <= j) =>
                      /\ classify_call.wallet_type = order[k].role
                      /\ \E i \in DOMAIN order[k].entries :
                            /\ SameAddress(order[k].entries[i].address,
                                           classify_call.address)
                            /\ classify_call.label = order[k].entries[i].label

\* An address spelt in another case than the registry spells it, listed as
\* whale and as exchange.
C18_Witness ==
    /\ Classified
    /\ classify_call.address = ADDR_A_LOWER
    /\ classify_call.wallet_type = "whale"
    /\ classify_call.label = "Whale A"
    /\ Lists(classify_call.wallets.exchanges, classify_call.address)

FetchSucceeded ==
    /\ fetch_call.phase = "returned"
    /\ FetchSupported
    /\ fetch_call.answer.kind = "http"
    /\ fetch_call.answer.status = 200
    /\ (Lower(fetch_call.chain) # SOLANA => fetch_call.answer.body_ok)

RECURSIVE Hashes(_)
Hashes(records) ==
    IF records = << >> THEN << >>
    ELSE <<Head(records).hash>> \o Hashes(Tail(records))

RECURSIVE TxHashes(_)
TxHashes(ts) ==
    IF ts = << >> THEN << >>
    ELSE <<Head(ts).tx_hash>> \o TxHashes(Tail(ts))

WellFormed(tx) ==
    tx.value.kind = "ok" /\ tx.decimals.kind = "ok" /\ tx.timestamp.kind = "ok"

NotMalformed(tx) ==
    tx.value.kind # "malformed" /\ tx.decimals.kind # "malformed"
        /\ tx.timestamp.kind # "malformed"

\* C19: a successful fetch returns exactly the records whose amount,
\* decimals and timestamp fields are all present and well-formed, in their
\* original order; a record with a missing or malformed field is dropped
\* and does not fail the fetch.
C19_OnlyWellFormedKept ==
    FetchSucceeded =>
        /\ ~fetch_call.raised
        /\ TxHashes(fetch_call.transfers)
              = Hashes(SelectSeq(fetch_call.answer.records, WellFormed))

\* What holds instead: exactly the records with a malformed field are
\* dropped; a missing field takes its default and the record is kept.
C19_MalformedDropped ==
    FetchSucceeded =>
        /\ ~fetch_call.raised
        /\ TxHashes(fetch_call.transfers)
              = Hashes(SelectSeq(fetch_call.answer.records, NotMalformed))

\* A record without an amount is returned as a transfer of amount 0.
C19_MissingKept ==
    /\ FetchSucceeded
    /\ \E i \in DOMAIN fetch_call.transfers :
          /\ fetch_call.transfers[i].tx_hash = "h4"
          /\ fetch_call.transfers[i].value.raw = 0


(***************************************************************************)
(* Properties of the scan's tasks.                                         *)
(***************************************************************************)
\* C13: a symbol whose evaluation fails (its requests fail, or the
\* evaluation raises) does not abort the scan: the scan returns, and its
\* output holds the opportunity of every symbol whose evaluation succeeds
\* and qualifies.
C13_FailureIsolated ==
    /\ scan_pc # "raised"
    /\ scan_pc = "returned" =>
          \A i \in DOMAIN scan_symbols :
              Qualifies(market[i]) =>
                  \E k \in DOMAIN scan_output :
                      /\ scan_output[k].symbol = scan_symbols[i]
                      /\ scan_output[k].current_price = market[i].ticker.last

\* C13 witness: one evaluation raised, another symbol's opportunity is in
\* the output.
C13_Witness ==
    /\ scan_pc = "returned"
    /\ \E i \in DOMAIN scan_symbols : market[i].raises
    /\ \E i \in DOMAIN scan_symbols :
          /\ Qualifies(market[i])
          /\ \E k \in DOMAIN scan_output : scan_output[k].symbol = scan_symbols[i]

Evaluations(i) == Cardinality({k \in DOMAIN completion : completion[k] = i})

\* C14: at most max_concurrent evaluations are in flight at any instant, a
\* task beyond that is waiting, a scan that started eventually returns, and
\* when it returns every symbol has been evaluated exactly once.
C14_BoundedConcurrency ==
    /\ [](Cardinality(Holding) <= max_concurrent)
    /\ [](\A i \in DOMAIN scan_symbols : Evaluations(i) <= 1)
    /\ [](scan_pc = "returned" =>
             \A i \in DOMAIN scan_symbols : Evaluations(i) = 1)
    /\ (scan_pc = "gathering" ~> scan_pc = "returned")

\* C14 witness: there are more symbols than slots, every slot is taken and
\* a task is waiting for one.
C14_Witness ==
    /\ scan_pc = "gathering"
    /\ Len(scan_symbols) > max_concurrent
    /\ Cardinality(Holding) = max_concurrent
    /\ \E i \in DOMAIN task : task[i] = "waiting"


(***************************************************************************)
(* Properties of the alert record.                                         *)
(***************************************************************************)
\* The record the alert step appends, and the opportunity it is for.
Emitted == alerts'[Len(alerts')]

AlertStep == pc = "send" /\ CycleStep

\* The direction an opportunity has of its own: that of its price change.
OpportunityDirection(scan_result) ==
    IF scan_result.price_change_1h > 0 THEN "LONG" ELSE "SHORT"

\* C15 as stated: the record emitted for an opportunity has the
\* opportunity's symbol, its current price and its direction.
C15_Original ==
    [][AlertStep =>
          /\ Emitted.coin = opportunities[idx].symbol
          /\ Emitted.price = opportunities[idx].current_price
          /\ Emitted.direction = OpportunityDirection(opportunities[idx])]_vars

\* C15 amended: the record emitted for an opportunity has the opportunity's
\* base-asset ticker (its symbol up to the first "/"), the opportunity's
\* current price (not the later price of the momentum analysis), and the
\* direction of the re-derived 5-minute change: LONG when it is positive,
\* SHORT when it is negative, whichever way the opportunity's own price
\* change points.
C15_Amended ==
    [][AlertStep =>
          /\ Emitted.coin = opportunities[idx].base_asset
          /\ Emitted.coin \o SubSeq(opportunities[idx].symbol,
                                    Len(Emitted.coin) + 1,
                                    Len(opportunities[idx].symbol))
                = opportunities[idx].symbol
          /\ Emitted.price = opportunities[idx].current_price
          /\ analysis.change_5m.num # 0
          /\ Emitted.direction = (IF analysis.change_5m.num > 0 THEN "LONG" ELSE "SHORT")
          /\ Emitted.change_5m = analysis.change_5m]_vars

\* C15 witness: an alert was emitted as LONG at the opportunity's price for
\* an opportunity whose own price change is negative.
C15_Witness ==
    /\ pc = "pause"
    /\ alerts # << >>
    /\ alerts[Len(alerts)].direction = "LONG"
    /\ alerts[Len(alerts)].price = opportunities[idx].current_price
    /\ alerts[Len(alerts)].coin # opportunities[idx].symbol
    /\ opportunities[idx].price_change_1h < 0


(***************************************************************************)
(* Properties of concurrent resolution.                                    *)
(***************************************************************************)
Returned == {c \in DOMAIN resolvers : resolvers[c].phase = "returned"}

RaceKey == cache_key(resolvers[1].symbol, resolvers[1].chain)

\* The pair one lookup produces for the call's arguments and answer.
LookupOf(c, response) ==
    resolve_token_address(resolvers[c].symbol, resolvers[c].chain, response).result

\* C20: whatever the interleaving of resolve_address calls for one key, a
\* call returns the whole pair of one lookup (its own, or the cached pair of
\* another call's lookup), the cache entry is at every moment the pair
\* returned by the call that completed last, and so it is once every call
\* has finished.
C20_LastWriterWins ==
    /\ \A c \in Returned :
          \/ /\ ~resolvers[c].hit
             /\ resolvers[c].response # NoAnswer
             /\ resolvers[c].result = LookupOf(c, resolvers[c].response)
          \/ /\ ~resolvers[c].hit
             /\ ~Requests(resolvers[c].symbol, resolvers[c].chain)
             /\ resolvers[c].result = LookupOf(c, NoAnswer)
          \/ /\ resolvers[c].hit
             /\ \E d \in Returned :
                   ~resolvers[d].hit /\ resolvers[c].result = resolvers[d].result
    /\ Returned # {} =>
          /\ RaceKey \in DOMAIN address_cache
          /\ address_cache[RaceKey] = resolve_call.result
          /\ \E c \in Returned : resolvers[c].result = resolve_call.result
    /\ DOMAIN address_cache \subseteq {RaceKey}

\* C20 witness: two calls raced past the cache check, their lookups gave
\* different pairs, both have returned, and the cache holds the pair of the
\* one that returned last.
C20_Witness ==
    /\ Returned = DOMAIN resolvers
    /\ \E c, d \in Returned :
          /\ ~resolvers[c].hit /\ ~resolvers[d].hit
          /\ resolvers[c].result # resolvers[d].result
          /\ resolvers[c].result[1] # None
          /\ resolvers[d].result[1] # None
          /\ address_cache[RaceKey] = resolvers[d].result


(***************************************************************************)
(* Properties of the stop signal.                                          *)
(***************************************************************************)
\* C21: the bot stops only between cycles: a stop signal arriving while a
\* cycle is in flight lets the cycle finish its current step, and the loop
\* ends only from its wait between two cycles.
C21_StopBetweenCycles ==
    [][(running /\ ~running') => pc = "sleep"]_vars


(***************************************************************************)
(* Properties of the scorer as a function.                                 *)
(***************************************************************************)
\* C22: the Signal is a function of the transfers as fetched (roles,
\* quantity, timestamp), the reference price and the clock: it is the Signal
\* a freshly fetched copy of the list gets at the same price and clock, also
\* when the list passed in was scored before at another price.
C22_PureFunction ==
    Scored => signal = analyze_transfers(Fresh(scored_input), scored_price, now)

MarketMakerQuiet == Cardinality(MarketMakerAt(scored_input)) < 3

\* C23: for a non-empty list with fewer than 3 market-maker transfers the
\* category is bearish iff there are more whale-to-exchange than
\* exchange-to-whale transfers, bullish iff fewer, volatility-expected iff
\* the counts are equal and positive, neutral iff both are 0; the
\* confidence is the clamped confidence, except in the neutral case, where
\* it is max(clamped confidence - 30, 20).
C23_CategoryByCounts ==
    (Scored /\ scored_input # << >> /\ MarketMakerQuiet) =>
        LET w2e == Cardinality(WhaleToExchangeAt(scored_input))
            e2w == Cardinality(ExchangeToWhaleAt(scored_input))
            clamped == Min(RawConfidence(ScoredPriced, now), 95)
        IN  /\ signal.signal_type = "SHORT" <=> w2e > e2w
            /\ signal.signal_type = "LONG" <=> e2w > w2e
            /\ signal.signal_type = "VOLATILITY" <=> (w2e = e2w /\ w2e > 0)
            /\ signal.signal_type = "NEUTRAL" <=> (w2e = 0 /\ e2w = 0)
            /\ signal.confidence_score =
                  IF w2e = 0 /\ e2w = 0
                  THEN Max(clamped - 30, 20) ELSE clamped

\* C23 witness: a recent whale transfer that is neither a deposit nor a
\* withdrawal: neutral, 60 lowered to 30.
C23_Witness ==
    /\ Scored /\ scored_input # << >> /\ MarketMakerQuiet
    /\ signal.signal_type = "NEUTRAL"
    /\ signal.confidence_score = 30

\* The quote-currency value of the transfers at the positions in at, at the
\* reference price of the call.
UsdOver(ts, at, price) ==
    SeqSum([i \in DOMAIN ts |-> IF i \in at THEN ts[i].value * price ELSE 0])

\* C27: the large-transfer bonus is part of the confidence only when the
\* quote-currency value of the whale-to-exchange or of the exchange-to-whale
\* transfers, at the call's reference price, exceeds the large-transfer
\* threshold; at reference price 0 it is never added.
C27_LargeBonusNeedsUsd ==
    (Scored /\ scored_input # << >>) =>
        LET w2e == WhaleToExchangeAt(scored_input)
            e2w == ExchangeToWhaleAt(scored_input)
            large == \/ UsdOver(scored_input, w2e, scored_price) > LARGE_TRANSFER_USD
                     \/ UsdOver(scored_input, e2w, scored_price) > LARGE_TRANSFER_USD
            clamped == Min(50 + WhaleBonus(Cardinality(w2e)) + WhaleBonus(Cardinality(e2w))
                              + (IF large THEN LARGE_AMOUNT_CONFIDENCE_BOOST ELSE 0)
                              + RecentBonus(Cardinality(RecentWhaleAt(scored_input, now))),
                           95)
        IN  signal.confidence_score =
               IF signal.signal_type = "NEUTRAL" THEN Max(clamped - 30, 20) ELSE clamped

\* What holds instead: the bonus follows the sum of `value_usd or value`,
\* the token quantity standing in where no quote value is held.
C27_LargeBonusByAmount ==
    (Scored /\ scored_input # << >>) =>
        LET w2e == WhaleToExchangeAt(scored_input)
            e2w == ExchangeToWhaleAt(scored_input)
            large == \/ ValueOver(ScoredPriced, w2e) > LARGE_TRANSFER_USD
                     \/ ValueOver(ScoredPriced, e2w) > LARGE_TRANSFER_USD
            clamped == Min(50 + WhaleBonus(Cardinality(w2e)) + WhaleBonus(Cardinality(e2w))
                              + (IF large THEN LARGE_AMOUNT_CONFIDENCE_BOOST ELSE 0)
                              + RecentBonus(Cardinality(RecentWhaleAt(scored_input, now))),
                           95)
        IN  signal.confidence_score =
               IF signal.signal_type = "NEUTRAL" THEN Max(clamped - 30, 20) ELSE clamped


(***************************************************************************)
(* Properties of the gates and of the cycle's loop.                        *)
(***************************************************************************)
\* What a step that skips the opportunity leaves alone, and where it goes.
SkipFrame ==
    /\ alerts' = alerts
    /\ alert_cooldown' = alert_cooldown
    /\ address_cache' = address_cache
    /\ resolve_call' = resolve_call
    /\ onchain' = NoSignal
    /\ pc' \in {"gate", "sleep"}

InCooldown(symbol) ==
    /\ symbol \in DOMAIN alert_cooldown
    /\ now - alert_cooldown[symbol] <= 300

BelowOnePercent(change) == Abs(change.num) < change.den

\* C24: an opportunity whose symbol is in cooldown, whose short-horizon
\* analysis is unavailable, or whose short-horizon change is below 1.0 in
\* magnitude is skipped: no alert, no address resolution or transfer fetch,
\* the cooldown map unchanged, the loop going on to the next opportunity;
\* and every alert emitted has a short-horizon change of magnitude at least
\* 1.0.
C24_SkippedLeavesNoTrace ==
    /\ [](\A i \in DOMAIN alerts : ~BelowOnePercent(alerts[i].change_5m))
    /\ [][ /\ (pc = "gate" /\ CycleStep /\ InCooldown(opportunities[idx].symbol))
                => SkipFrame
           /\ (pc = "analysis" /\ CycleStep /\ analysis' = NoAnalysis) => SkipFrame
           /\ (pc = "analysis" /\ CycleStep /\ analysis' # NoAnalysis) =>
                 IF BelowOnePercent(analysis'.change_5m)
                 THEN SkipFrame ELSE pc' = "inspect"
         ]_vars

\* C24 witness: a cycle ended in which one opportunity was skipped for its
\* weak momentum (+0.99 %) and another alerted at exactly -1.00 %.
C24_Witness ==
    /\ pc = "sleep"
    /\ \E k \in DOMAIN cycle_log : cycle_log[k].fate = "weak_momentum"
    /\ \E i \in DOMAIN alerts :
          /\ alerts[i].timestamp = now
          /\ alerts[i].change_5m.num = -alerts[i].change_5m.den

Considered == 1..Min(Len(opportunities), 5)

\* C25: only the 5 highest-ranked opportunities of the cycle are considered,
\* in rank order: at most 5 alerts are emitted, each for one of the first 5,
\* in their order, and none for an opportunity ranked 6th or lower.
C25_TopFiveOnly ==
    /\ \A j, k \in DOMAIN opportunities :
          j < k => FracGeq(opportunities[j].volume_spike_ratio,
                           opportunities[k].volume_spike_ratio)
    /\ Len(alerts) <= 5
    /\ idx <= 5
    /\ \A i \in DOMAIN alerts :
          \E k \in Considered : alerts[i].coin = opportunities[k].base_asset
    /\ \A i, j \in DOMAIN alerts :
          i < j =>
             \E k, m \in Considered :
                /\ k < m
                /\ alerts[i].coin = opportunities[k].base_asset
                /\ alerts[j].coin = opportunities[m].base_asset
    /\ \A k \in DOMAIN cycle_log :
          \E m \in Considered : cycle_log[k].symbol = opportunities[m].symbol

\* C25 witness: the cycle over 6 opportunities ended with one of the first 5
\* skipped, the other 4 alerted and the 6th not looked at.
C25_Witness ==
    /\ pc = "sleep"
    /\ Len(opportunities) = 6
    /\ Len(alerts) = 4
    /\ Len(cycle_log) = 5
    /\ \E k \in DOMAIN cycle_log : cycle_log[k].fate = "weak_momentum"


(***************************************************************************)
(* Properties of the symbol normalization.                                 *)
(***************************************************************************)
\* The call was for a ticker of the static table under the size prefix.
Prefixed(prefix) ==
    /\ lookup_call.phase = "returned"
    /\ Len(lookup_call.symbol) > Len(prefix)
    /\ SubSeq(lookup_call.symbol, 1, Len(prefix)) = prefix
    /\ InTable(SubSeq(lookup_call.symbol, Len(prefix) + 1, Len(lookup_call.symbol)))

\* The call returned what the call for the bare ticker returns, from the
\* static table.
AsBareTicker(prefix) ==
    LET ticker == SubSeq(lookup_call.symbol, Len(prefix) + 1, Len(lookup_call.symbol))
        bare == resolve_token_address(ticker, lookup_call.chain, lookup_call.response)
    IN  /\ lookup_call.result = bare.result
        /\ lookup_call.outbound = 0
        /\ ~lookup_call.raised

\* C26: for a ticker T of the static table, resolving "1000" + T and
\* "1000000" + T gives the (address, chain) that resolving T gives, without
\* an outbound request.
C26_SizePrefixStripped ==
    /\ Prefixed(THOUSAND) /\ ~Prefixed(MILLION) => AsBareTicker(THOUSAND)
    /\ Prefixed(MILLION) => AsBareTicker(MILLION)

\* What holds: the prefix "1000" is stripped.
C26_ThousandStripped ==
    Prefixed(THOUSAND) /\ ~Prefixed(MILLION) => AsBareTicker(THOUSAND)

\* The prefix "1000000" leaves "000" before the ticker, and the pair search
\* is asked for it.
C26_MillionSearched ==
    /\ Prefixed(MILLION)
    /\ symbol_clean(lookup_call.symbol) = <<"0", "0", "0">> \o ETH
    /\ lookup_call.outbound = 1
    /\ lookup_call.result[1] = "0xE70"


(***************************************************************************)
(* Properties of the symbol list cache.                                    *)
(***************************************************************************)
\* The call was made without force_refresh on a scanner holding a list.
CacheHeld ==
    /\ pairs_call.phase = "returned"
    /\ ~pairs_call.force_refresh
    /\ pairs_call.cache_before # << >>

\* What a call that holds a cache of the given age does: the cached list
\* without a reload while the age is under an hour, else one reload, and the
\* cached list again if the reload fails.
CachedOrReloaded(age) ==
    /\ age < CACHE_SECONDS =>
          /\ pairs_call.loads = 0
          /\ pairs_call.result = pairs_call.cache_before
    /\ age >= CACHE_SECONDS =>
          /\ pairs_call.loads = 1
          /\ pairs_call.answer.kind = "error" =>
                pairs_call.result = pairs_call.cache_before
          /\ pairs_call.answer.kind = "markets" =>
                pairs_call.result = UsdtPairs(pairs_call.answer.markets)

\* C30: without force_refresh the cached list is returned without a reload
\* only while less than 3600 seconds have elapsed since the cache was
\* filled; from 3600 seconds on, more than a day included, the markets are
\* reloaded, and a failed reload returns the previous list.
C30_CacheByElapsed == CacheHeld => CachedOrReloaded(pairs_call.elapsed)

\* What holds: the age compared is the elapsed time modulo one day.
C30_CacheBySecondsOfDay ==
    CacheHeld => CachedOrReloaded(pairs_call.elapsed % SECONDS_PER_DAY)

\* A list filled a day and half an hour ago is returned without a reload.
C30_StaleListReturned ==
    /\ CacheHeld
    /\ pairs_call.elapsed = 88200
    /\ pairs_call.loads = 0
    /\ pairs_call.result = pairs_call.cache_before


(***************************************************************************)
(* Properties of the signal store.                                         *)
(***************************************************************************)
\* C28: in JSON mode no two signals of the list have the same id, whatever
\* the sequence of add_signal (with its trimming), reload_from_disk (with
\* its cleanup) and clear_all_signals.
C28_UniqueIds ==
    ~use_postgres =>
        \A i, j \in DOMAIN signals : i # j => signals[i].id # signals[j].id

\* A full list, trimmed by the last add, holds the id max_signals + 1 twice.
C28_DuplicateAfterTrim ==
    /\ ~use_postgres
    /\ Len(signals) = MaxSignals
    /\ signals[1].id = MaxSignals + 1
    /\ signals[2].id = MaxSignals + 1

\* A list that cleanup shortened holds, after the next add, an id twice
\* without ever having been full.
C28_DuplicateAfterCleanup ==
    /\ ~use_postgres
    /\ add_call.tag = 3
    /\ Len(signals) = 2
    /\ signals[1].id = 2
    /\ signals[2].id = 2

\* C29: in PostgreSQL mode, after every add_signal call the signal is a row
\* of the table or an entry of the JSON list: an insert that does not
\* succeed falls back to the JSON list.
C29_NoSignalLost ==
    (use_postgres /\ add_call.phase = "returned") =>
        /\ add_call.in_db \/ add_call.in_list
        /\ add_call.insert # "inserted" => add_call.in_list

\* What holds: the signal is kept unless Database.add_signal returned False.
C29_LostOnlyWhenRejected ==
    (use_postgres /\ add_call.phase = "returned") =>
        /\ add_call.insert = "inserted" => add_call.in_db
        /\ add_call.insert = "raised" => add_call.in_list
        /\ add_call.insert = "rejected" => ~add_call.in_db /\ ~add_call.in_list

\* The insert was rejected and the signal is nowhere.
C29_RejectedSignalLost ==
    /\ use_postgres
    /\ add_call.phase = "returned"
    /\ add_call.insert = "rejected"
    /\ ~add_call.in_db
    /\ ~add_call.in_list
    /\ signals = << >>
    /\ db_rows = << >>

=============================================================================
